---- MODULE Spec2Model ----
(***************************************************************************)
(* J.A.R.V.I.S desktop shell: backend process supervisor, live connection, *)
(* settings bridge and model switch workflow.                              *)
(*   main process : src/electron-app/src/main-working.js (lines 1-601)     *)
(*   settings UI  : src/unnamed/part_000 (SettingsManager)                 *)
(***************************************************************************)
EXTENDS Integers, Sequences, FiniteSets, TLC

(* ------------------------------ bounds --------------------------------- *)
\* WebSocket objects created in one run (each connectWebSocket call makes one)
MaxSockets == 3
\* chat requests made in one run
MaxChats == 2
\* runs of saveSettingsInternal (Apply / Save & Close clicks)
MaxSaves == 1
\* progress polls issued, all jobs together
MaxPolls == 2
\* milliseconds the clock of Date.now() advances during a run
MaxClock == 2

(* --------------------------- program constants -------------------------- *)
\* abort timers of send-backend-request
DownloadTimeoutMs == 120000
RequestTimeoutMs == 30000
DefaultPort == 8000
\* parseInt's NaN and a field a payload does not carry, as integers outside the ports
NaN == 0 - 1
Undefined == 0 - 2
NoSock == 0

(* ---------------------- inputs of the environment ----------------------- *)
Absent == << "absent" >>
\* contents the sidecar file current_port.txt can have (characters)
FileContents == { <<" ", "8", "1", "\n">>, <<"x">> }
\* digit strings captured by /Auto-selected port: (\d+)/ in a stdout chunk
StdoutDigits == { <<"7", "1">> }
StdoutChunks ==
    { [match |-> FALSE, digits |-> <<>>] }
        \cup { [match |-> TRUE, digits |-> d] : d \in StdoutDigits }

VARIABLES
    scriptExists,   \* fs.existsSync(scriptPath): the entry point is on disk
    fetchAvailable, \* globalThis.fetch or node-fetch can be had
    appPc,          \* position of the app.whenReady continuation
    appExited,      \* the Electron main process has gone
    winPc,          \* main window: "none" | "open" | "closing" | "closed"
    beforeQuitDone, \* the 'before-quit' handler has run
    mainWindow,     \* mainWindow !== null
    isQuitting,
    pythonProcess,  \* the handle is set (pythonProcess !== null)
    procState,      \* the subprocess itself: "none" | "running" | "exited"
    procKilled,     \* ChildProcess.killed
    procSignals,    \* signals the subprocess was sent, in order
    spawnCount,     \* calls of spawn()
    killTimers,     \* pending force-kill timers of cleanup()
    portFile,       \* contents of current_port.txt, or Absent
    currentPort,
    portSource,     \* which assignment wrote currentPort last: "default" | "stdout" | "file"
    announced,      \* a port announcement was matched on stdout
    backendUp,      \* the backend accepts connections
    initTimer,      \* the initial connect timer of whenReady is pending
    timers,         \* pending reconnect timers
    sockets,        \* every WebSocket object created so far
    created,        \* number of WebSocket objects created
    ws,             \* the shared socket reference (index, NoSock for null)
    uiStatus,       \* last 'backend-status' payload sent to the main window
    syncs,          \* the settings sync POSTs issued, in order
    store,          \* electron-store contents (keys that were set)
    chats,          \* the chat requests made so far (sendToPython calls)
    sent,           \* number of sendToPython calls
    framesOut,      \* chat frames written to a socket (ws.send)
    uncaught,       \* an exception escaped an event handler of the main process
    now,            \* Date.now(), in milliseconds since the application started
    uiMessage,      \* last 'backend-message' sent to the main window (<<>> or <<kind>>)
    isProcessing,   \* chat window: this.isProcessing
    backendConnected, \* chat window: this.backendConnected
    awaited,        \* chat requests whose send-message call the chat window awaits
    settingsOpen,   \* the settings window (and its SettingsManager) exists
    localStorage,   \* the renderers' localStorage (keys that were set)
    jobs,           \* one record per run of saveSettingsInternal
    saves,          \* number of saveSettingsInternal calls
    statusText,     \* text of #modelStatusText (status lines and show*Message)
    loadChecks,     \* checkModelAvailability calls waiting for their reply
    progressShown,  \* percentage shown in #progressText
    unhandled,      \* a poll callback ended in a rejection nobody handles
    relay           \* the last call of send-backend-request made on its own: the
                    \* request, what HTTP did, and what the handler gave back

coreVars == << scriptExists, fetchAvailable, appPc, appExited, winPc, beforeQuitDone, mainWindow,
               isQuitting, pythonProcess, procState, procKilled, procSignals,
               spawnCount, killTimers, portFile, currentPort, portSource, announced,
               backendUp, initTimer, timers, sockets, created, ws, uiStatus, syncs, store >>

chatVars == << chats, sent, framesOut, uncaught, uiMessage, now >>

\* the renderer of the main window (WorkingJarvisRenderer)
rendVars == << isProcessing, backendConnected, awaited >>

setVars == << settingsOpen, localStorage, jobs, saves, statusText, loadChecks,
             progressShown, unhandled, relay >>

vars == << coreVars, chatVars, rendVars, setVars >>

(* ------------------------------ parseInt -------------------------------- *)
DigitChars == { "0", "1", "2", "3", "4", "5", "6", "7", "8", "9" }
DigitVal(c) ==
    CASE c = "0" -> 0 [] c = "1" -> 1 [] c = "2" -> 2 [] c = "3" -> 3 [] c = "4" -> 4
      [] c = "5" -> 5 [] c = "6" -> 6 [] c = "7" -> 7 [] c = "8" -> 8 [] c = "9" -> 9
WhiteChars == { " ", "\n" }

RECURSIVE TrimLeft(_)
TrimLeft(s) ==
    IF s # <<>> /\ Head(s) \in WhiteChars THEN TrimLeft(Tail(s)) ELSE s

RECURSIVE TrimRight(_)
TrimRight(s) ==
    IF s # <<>> /\ s[Len(s)] \in WhiteChars
    THEN TrimRight(SubSeq(s, 1, Len(s) - 1)) ELSE s

\* String.prototype.trim
Trim(s) == TrimRight(TrimLeft(s))

RECURSIVE DigitPrefix(_)
DigitPrefix(s) ==
    IF s # <<>> /\ Head(s) \in DigitChars
    THEN <<Head(s)>> \o DigitPrefix(Tail(s)) ELSE <<>>

RECURSIVE DigitsValue(_, _)
DigitsValue(s, acc) ==
    IF s = <<>> THEN acc ELSE DigitsValue(Tail(s), 10 * acc + DigitVal(Head(s)))

\* parseInt(string): leading white space skipped, the longest run of digits
\* converted, NaN when there is none
ParseInt(s) ==
    LET d == DigitPrefix(TrimLeft(s))
    IN  IF d = <<>> THEN NaN ELSE DigitsValue(d, 0)

(* ---------------------------- preference set ---------------------------- *)
DefaultModel == "orca"
Models == { "orca", "mistral" }
Themes == { "dark", "light" }
\* electron-store: a key is present only once store.set wrote it
StoreGet(st, key, dflt) == IF key \in DOMAIN st THEN st[key] ELSE dflt

\* syncSettingsWithBackend: the request body
SettingsData(st) ==
    [ model |-> StoreGet(st, "jarvis-ai-model", DefaultModel),
      voice |-> StoreGet(st, "jarvis-voice-enabled", TRUE),
      auto  |-> StoreGet(st, "jarvis-auto-start", FALSE),
      port  |-> StoreGet(st, "jarvis-backend-port", "8000"),
      theme |-> StoreGet(st, "jarvis-theme", "dark") ]

(* ------------------------- settings window state ------------------------ *)
\* before any call of send-backend-request
NoRelay ==
    [ url |-> "none", port |-> Undefined, timeoutMs |-> 0, threw |-> FALSE,
      http |-> [ kind |-> "none", code |-> 0, success |-> FALSE, ms |-> 0 ],
      result |-> [ success |-> FALSE, error |-> "" ] ]

\* current_model of a /model/current reply that carries none (or of a failed call)
NoModel == "none"

\* localStorage.getItem(key) || dflt
LsGet(ls, key, dflt) == IF key \in DOMAIN ls THEN ls[key] ELSE dflt

\* localStorage.setItem stores the string form of the value
BoolStr(b) == IF b THEN "true" ELSE "false"

\* a key set in a key-value store (localStorage.setItem, store.set)
SetKey(kv, key, value) == [ k \in DOMAIN kv \cup { key } |-> IF k = key THEN value ELSE kv[k] ]

\* the backend calls one job issued, by endpoint
NoCalls == [ check |-> 0, download |-> 0, poll |-> 0, switch |-> 0 ]

\* one run of saveSettingsInternal:
\*   pc       where its continuation stands ("idle" before the click)
\*   close    started by Save & Close
\*   model    the selected model
\*   avail    what the /model/check reply of the job said ("yes", "no"), "unknown"
\*            before it and when the check failed
\*   interval the poll interval is set
\*   nPoll, nSwitch, nPersist  poll callbacks waiting for their progress reply,
\*            their switch reply, their save-settings reply
\*   phase    phase of the Model Switch Job
NoJob ==
    [ pc |-> "idle", close |-> FALSE, model |-> DefaultModel,
      avail |-> "unknown", interval |-> FALSE,
      nPoll |-> 0, nSwitch |-> 0, nPersist |-> 0,
      calls |-> NoCalls, phase |-> "none" ]

\* values the form of the settings window can hold when a save reads it
Forms ==
    [ theme : Themes, voice : { TRUE }, auto : { FALSE }, port : { "8000" } ]

\* the replies /model/progress can give: no success, or a progress and a status
\* (progressResponse.progress || 0, progressResponse.status || 'downloading')
ProgressReplies ==
    { [ success |-> FALSE, progress |-> 0, status |-> "downloading" ] }
        \cup [ success : { TRUE }, progress : { 50, 100 },
                status : { "downloading", "completed", "failed" } ]

(* ------------------------------- sockets -------------------------------- *)
NoSocket == [ st |-> "NONE", port |-> Undefined, src |-> "default" ]

\* get-backend-status: connected
Connected == ws # NoSock /\ sockets[ws].st = "OPEN"

\* the connection state of the shared session
ConnState ==
    IF ws = NoSock THEN "Disconnected"
    ELSE IF sockets[ws].st = "CONNECTING" THEN "Connecting"
    ELSE IF sockets[ws].st = "OPEN" THEN "Connected"
    ELSE "Disconnected"

\* pythonProcess && !pythonProcess.killed
PythonRunning == pythonProcess /\ ~procKilled

\* mainWindow.webContents.send('backend-status', payload), guarded by if (mainWindow)
Notify(payload) == IF mainWindow THEN << payload >> ELSE uiStatus

\* updateBackendStatus of the chat window, for a 'backend-status' payload that
\* was sent to the main window: this.backendConnected = status.connected
Heard(connected) == IF mainWindow THEN connected ELSE backendConnected

\* WebSocket.close() on a socket in state st
CloseSocket(st) ==
    CASE st = "CONNECTING" -> "ABORTING"
      [] st = "OPEN" -> "CLOSING"
      [] OTHER -> st

\* connectWebSocket: the constructor throws on an invalid URL (a NaN port)
\* and the catch leaves ws as it was. MaxSockets bounds the sockets of a run.
ConnectWebSocket ==
    IF currentPort = NaN
    THEN UNCHANGED << sockets, created, ws >>
    ELSE /\ created < MaxSockets
         /\ created' = created + 1
         /\ sockets' = [sockets EXCEPT ![created + 1] =
                            [ st |-> "CONNECTING", port |-> currentPort, src |-> portSource ]]
         /\ ws' = created + 1

\* the 'close' handler, and the 'error' handler before it when withError:
\* the UI is told, and each handler arms one reconnect timer
CloseHandlers(withError) ==
    /\ uiStatus' = Notify([ connected |-> FALSE, pythonRunning |-> PythonRunning,
                            port |-> currentPort ])
    /\ backendConnected' = Heard(FALSE)
    /\ timers' = timers + (IF withError THEN 2 ELSE 1)

\* cleanup() that keeps the process handle after the signal
Cleanup_KeepsHandle ==
    /\ IF ws # NoSock
       THEN /\ sockets' = [sockets EXCEPT ![ws].st = CloseSocket(sockets[ws].st)]
            /\ ws' = NoSock
       ELSE UNCHANGED << sockets, ws >>
    /\ IF pythonProcess
       THEN /\ IF procState = "running"
               THEN /\ procSignals' = Append(procSignals, "SIGTERM")
                    /\ procKilled' = TRUE
               ELSE UNCHANGED << procSignals, procKilled >>
            /\ killTimers' = killTimers + 1
            /\ UNCHANGED pythonProcess
       ELSE UNCHANGED << procSignals, procKilled, killTimers, pythonProcess >>

\* cleanup()
Cleanup ==
    /\ IF ws # NoSock
       THEN /\ sockets' = [sockets EXCEPT ![ws].st = CloseSocket(sockets[ws].st)]
            /\ ws' = NoSock
       ELSE UNCHANGED << sockets, ws >>
    /\ IF pythonProcess
       THEN /\ IF procState = "running"
               THEN /\ procSignals' = Append(procSignals, "SIGTERM")
                    /\ procKilled' = TRUE
               ELSE UNCHANGED << procSignals, procKilled >>
            /\ killTimers' = killTimers + 1
            /\ pythonProcess' = FALSE
       ELSE UNCHANGED << procSignals, procKilled, killTimers, pythonProcess >>

(* -------------------------------- chats --------------------------------- *)
\* a chat request: the socket its listener was put on, its timeout timer, whether
\* the listener is still attached, what the caller of send-message got, and the
\* id of the frame that was sent (none when nothing was sent)
NoChat ==
    [ sock |-> NoSock, timer |-> FALSE, listener |-> FALSE, outcome |-> "none",
      id |-> << >> ]

\* a promise that could be settled again: the last call wins
Settle_LastWins(c, outcome) == [c EXCEPT !.outcome = outcome]

\* resolve / reject of the promise of sendToPython: a promise settles once, a
\* later call changes nothing
Settle(c, outcome) ==
    IF c.outcome = "none" THEN [c EXCEPT !.outcome = outcome] ELSE c

\* ws.off('message', responseHandler) names the shared reference, whatever
\* socket the listener was put on
Detach(c) == [c EXCEPT !.listener = IF ws = c.sock THEN FALSE ELSE c.listener]

\* responseHandler whose catch block rejects and leaves the listener attached
ResponseHandler_CatchKeepsListener(c, kind) ==
    IF kind = "other"
    THEN [ chat |-> c, threw |-> FALSE ]
    ELSE IF ws = NoSock
    THEN [ chat |-> [c EXCEPT !.timer = FALSE], threw |-> TRUE ]
    ELSE [ chat |-> IF kind = "chat_response"
                    THEN Settle(Detach([c EXCEPT !.timer = FALSE]), "reply")
                    ELSE Settle([c EXCEPT !.timer = FALSE], "parseerror"),
           threw |-> FALSE ]

\* responseHandler of chat c on a frame of the given kind. With ws null, ws.off
\* throws in the try block and again in the catch block, after clearTimeout and
\* before resolve or reject: the exception leaves the handler
ResponseHandler(c, kind) ==
    IF kind = "other"
    THEN [ chat |-> c, threw |-> FALSE ]
    ELSE IF ws = NoSock
    THEN [ chat |-> [c EXCEPT !.timer = FALSE], threw |-> TRUE ]
    ELSE [ chat |-> Settle(Detach([c EXCEPT !.timer = FALSE]),
                           IF kind = "chat_response" THEN "reply" ELSE "parseerror"),
           threw |-> FALSE ]

\* emit('message') that stops after the first response handler attached to s
RunHandlers_FirstOnly(cs, i, s, kind) ==
    LET attached == { c \in i .. MaxChats : cs[c].listener /\ cs[c].sock = s }
    IN  IF attached = { }
        THEN [ chats |-> cs, threw |-> FALSE ]
        ELSE LET c == CHOOSE x \in attached : \A y \in attached : x <= y
                 r == ResponseHandler(cs[c], kind)
             IN  [ chats |-> [cs EXCEPT ![c] = r.chat], threw |-> r.threw ]

\* EventEmitter.emit('message') on socket s: the response handlers attached to s
\* run in the order they were attached, until one throws
RECURSIVE RunHandlers(_, _, _, _)
RunHandlers(cs, i, s, kind) ==
    IF i > MaxChats
    THEN [ chats |-> cs, threw |-> FALSE ]
    ELSE IF cs[i].listener /\ cs[i].sock = s
    THEN LET r == ResponseHandler(cs[i], kind)
         IN  IF r.threw
             THEN [ chats |-> [cs EXCEPT ![i] = r.chat], threw |-> TRUE ]
             ELSE RunHandlers([cs EXCEPT ![i] = r.chat], i + 1, s, kind)
    ELSE RunHandlers(cs, i + 1, s, kind)

\* the guard without the readyState test
NotConnected_NullOnly == ws = NoSock

\* if (!ws || ws.readyState !== WebSocket.OPEN)
NotConnected == ws = NoSock \/ sockets[ws].st # "OPEN"

\* Number.prototype.toString of a non-negative integer: its decimal digits
DigitChar(d) ==
    CASE d = 0 -> "0" [] d = 1 -> "1" [] d = 2 -> "2" [] d = 3 -> "3" [] d = 4 -> "4"
      [] d = 5 -> "5" [] d = 6 -> "6" [] d = 7 -> "7" [] d = 8 -> "8" [] d = 9 -> "9"

RECURSIVE NumberToString(_)
NumberToString(n) ==
    IF n < 10 THEN << DigitChar(n) >> ELSE NumberToString(n \div 10) \o << DigitChar(n % 10) >>

\* sendToPython: rejected at once without an open session, else the timer is
\* armed, the listener attached and the frame sent
SendToPython ==
    IF NotConnected
    THEN [ chat |-> [NoChat EXCEPT !.outcome = "notconnected"], frames |-> 0 ]
    ELSE [ chat |-> [ sock |-> ws, timer |-> TRUE, listener |-> TRUE, outcome |-> "none",
                      id |-> NumberToString(now) ],
           frames |-> 1 ]

\* a timeout that also takes the listener off
TimeoutBody_Detaches(c) ==
    Settle([c EXCEPT !.timer = FALSE, !.listener = FALSE], "timeout")

\* the 30000 ms timer of a chat request: reject(new Error('Request timeout'))
TimeoutBody(c) == Settle([c EXCEPT !.timer = FALSE], "timeout")

\* ipcMain.handle('send-message'): what the renderer gets for each way the
\* promise of sendToPython settles (a rejection is caught and turned into a result)
SendMessageResult(outcome) ==
    CASE outcome = "reply" -> [ success |-> TRUE, error |-> "" ]
      [] outcome = "notconnected" -> [ success |-> FALSE, error |-> "WebSocket not connected" ]
      [] outcome = "timeout" -> [ success |-> FALSE, error |-> "Request timeout" ]
      [] outcome = "parseerror" -> [ success |-> FALSE, error |-> "SyntaxError" ]
      [] OTHER -> [ success |-> FALSE, error |-> "pending" ]

FrameKinds == { "chat_response", "other", "garbage" }

(* ============================ the main process ========================== *)
Init ==
    /\ scriptExists \in BOOLEAN
    /\ fetchAvailable \in BOOLEAN
    /\ appPc = "init"
    /\ appExited = FALSE
    /\ winPc = "none"
    /\ beforeQuitDone = FALSE
    /\ mainWindow = FALSE
    /\ isQuitting = FALSE
    /\ pythonProcess = FALSE
    /\ procState = "none"
    /\ procKilled = FALSE
    /\ procSignals = << >>
    /\ spawnCount = 0
    /\ killTimers = 0
    /\ portFile \in { Absent } \cup FileContents
    /\ currentPort = DefaultPort
    /\ portSource = "default"
    /\ announced = FALSE
    /\ backendUp = FALSE
    /\ initTimer = FALSE
    /\ timers = 0
    /\ sockets = [ i \in 1 .. MaxSockets |-> NoSocket ]
    /\ created = 0
    /\ ws = NoSock
    /\ uiStatus = << >>
    /\ syncs = << >>
    /\ store = << >>
    /\ chats = [ c \in 1 .. MaxChats |-> NoChat ]
    /\ sent = 0
    /\ framesOut = 0
    /\ uncaught = FALSE
    /\ uiMessage = << >>
    /\ now = 0
    /\ isProcessing = FALSE
    /\ backendConnected = FALSE
    /\ awaited = { }
    /\ settingsOpen = FALSE
    /\ localStorage = << >>
    /\ jobs = [ j \in 1 .. MaxSaves |-> NoJob ]
    /\ saves = 0
    /\ statusText = "none"
    /\ loadChecks = 0
    /\ progressShown = 0
    /\ unhandled = FALSE
    /\ relay = NoRelay

\* startPythonBackend with spawn() moved ahead of the existsSync check
StartPythonBackend_SpawnFirst(outcome) ==
    IF outcome = "throws"
    THEN /\ appPc' = "notstarted"
         /\ spawnCount' = spawnCount + 1
         /\ UNCHANGED << pythonProcess, procState >>
    ELSE /\ appPc' = IF outcome = "missing" THEN "notstarted" ELSE "grace"
         /\ spawnCount' = spawnCount + 1
         /\ pythonProcess' = TRUE
         /\ procState' = IF outcome = "ok" THEN "running" ELSE "spawnfail"

\* startPythonBackend up to its first await: "missing" when the script is not on
\* disk, else spawn() either throws, fails later ('error' then 'close'), or runs
StartOutcomes == IF scriptExists THEN { "ok", "throws", "spawnfail" } ELSE { "missing" }

StartPythonBackend(outcome) ==
    IF outcome \in { "missing", "throws" }
    THEN /\ appPc' = "notstarted"
         /\ spawnCount' = spawnCount + (IF outcome = "throws" THEN 1 ELSE 0)
         /\ UNCHANGED << pythonProcess, procState >>
    ELSE /\ appPc' = "grace"
         /\ spawnCount' = spawnCount + 1
         /\ pythonProcess' = TRUE
         /\ procState' = IF outcome = "ok" THEN "running" ELSE "spawnfail"

\* app.whenReady().then: createMainWindow, setupIPC, startPythonBackend
AppReady ==
    /\ ~appExited /\ appPc = "init"
    /\ mainWindow' = TRUE
    /\ winPc' = "open"
    /\ \E outcome \in StartOutcomes : StartPythonBackend(outcome)
    /\ UNCHANGED << scriptExists, fetchAvailable, appExited, beforeQuitDone, isQuitting,
                    procKilled, procSignals, killTimers, portFile, currentPort, portSource, announced,
                    backendUp, initTimer, timers, sockets, created, ws, uiStatus,
                    syncs, store, chatVars, rendVars, setVars >>

\* pythonProcess.stdout.on('data'): the announced port is taken up
StdoutPort(chunk) == IF chunk.match THEN ParseInt(chunk.digits) ELSE currentPort

StdoutData ==
    /\ ~appExited /\ procState = "running"
    /\ \E chunk \in StdoutChunks :
          /\ currentPort' = StdoutPort(chunk)
          /\ portSource' = IF chunk.match THEN "stdout" ELSE portSource
          /\ announced' = (announced \/ chunk.match)
    /\ UNCHANGED << scriptExists, fetchAvailable, appPc, appExited, winPc,
                    beforeQuitDone, mainWindow, isQuitting, pythonProcess, procState,
                    procKilled, procSignals, spawnCount, killTimers, portFile,
                    backendUp, initTimer, timers, sockets, created, ws, uiStatus,
                    syncs, store, chatVars, rendVars, setVars >>

\* the backend writes (or rewrites) current_port.txt; the file is read once, at
\* the end of the grace delay, so later writes are not followed
BackendWritesPortFile ==
    /\ ~appExited /\ procState = "running" /\ appPc = "grace"
    /\ \E c \in FileContents : c # portFile /\ portFile' = c
    /\ UNCHANGED << scriptExists, fetchAvailable, appPc, appExited, winPc,
                    beforeQuitDone, mainWindow, isQuitting, pythonProcess, procState,
                    procKilled, procSignals, spawnCount, killTimers, currentPort, portSource, announced,
                    backendUp, initTimer, timers, sockets, created, ws, uiStatus,
                    syncs, store, chatVars, rendVars, setVars >>

\* the backend starts to accept connections
BackendListens ==
    /\ ~appExited /\ procState = "running" /\ ~backendUp
    /\ backendUp' = TRUE
    /\ UNCHANGED << scriptExists, fetchAvailable, appPc, appExited, winPc,
                    beforeQuitDone, mainWindow, isQuitting, pythonProcess, procState,
                    procKilled, procSignals, spawnCount, killTimers, portFile,
                    currentPort, portSource, announced, initTimer, timers, sockets, created, ws, uiStatus,
                    syncs, store, chatVars, rendVars, setVars >>

\* the exit of the backend process goes unnoticed by the UI
PythonClose_Silent ==
    /\ ~appExited /\ procState \in { "running", "spawnfail" }
    /\ procState' = "exited"
    /\ backendUp' = FALSE
    /\ UNCHANGED uiStatus
    /\ UNCHANGED << scriptExists, fetchAvailable, appPc, appExited, winPc,
                    beforeQuitDone, mainWindow, isQuitting, pythonProcess,
                    procKilled, procSignals, spawnCount, killTimers, portFile,
                    currentPort, portSource, announced, initTimer, timers, sockets, created, ws,
                    syncs, store, chatVars, rendVars, setVars >>

\* pythonProcess.on('close'): the subprocess is gone
PythonClose ==
    /\ ~appExited /\ procState \in { "running", "spawnfail" }
    /\ procState' = "exited"
    /\ backendUp' = FALSE
    /\ uiStatus' = Notify([ connected |-> FALSE, pythonRunning |-> FALSE,
                            port |-> Undefined ])
    /\ backendConnected' = Heard(FALSE)
    /\ UNCHANGED << scriptExists, fetchAvailable, appPc, appExited, winPc,
                    beforeQuitDone, mainWindow, isQuitting, pythonProcess,
                    procKilled, procSignals, spawnCount, killTimers, portFile,
                    currentPort, portSource, announced, initTimer, timers, sockets, created, ws,
                    syncs, store, chatVars, isProcessing, awaited, setVars >>

\* the sidecar read made a fallback: taken only while no port was announced
SidecarPort_Fallback(file, readOk) ==
    IF file # Absent /\ readOk /\ currentPort = DefaultPort
    THEN ParseInt(Trim(file)) ELSE currentPort

\* the sidecar read of startPythonBackend: fs.existsSync, readFileSync, parseInt;
\* a read that throws is caught and leaves the port alone
SidecarPort(file, readOk) ==
    IF file # Absent /\ readOk THEN ParseInt(Trim(file)) ELSE currentPort

\* the grace delay of startPythonBackend elapses: the sidecar file is read, start
\* returns true and whenReady arms the initial connect timer
GraceElapsed ==
    /\ ~appExited /\ appPc = "grace"
    /\ \E readOk \in BOOLEAN :
          /\ currentPort' = SidecarPort(portFile, readOk)
          /\ portSource' = IF portFile # Absent /\ readOk THEN "file" ELSE portSource
          /\ UNCHANGED announced
    /\ appPc' = "started"
    /\ initTimer' = TRUE
    /\ UNCHANGED << scriptExists, fetchAvailable, appExited, winPc, beforeQuitDone,
                    mainWindow, isQuitting, pythonProcess, procState, procKilled,
                    procSignals, spawnCount, killTimers, portFile, backendUp, timers,
                    sockets, created, ws, uiStatus, syncs, store, chatVars, rendVars, setVars >>

\* whenReady's setTimeout(() => connectWebSocket(), 2000) fires
InitialConnect ==
    /\ ~appExited /\ initTimer
    /\ initTimer' = FALSE
    /\ ConnectWebSocket
    /\ UNCHANGED << scriptExists, fetchAvailable, appPc, appExited, winPc,
                    beforeQuitDone, mainWindow, isQuitting, pythonProcess, procState,
                    procKilled, procSignals, spawnCount, killTimers, portFile,
                    currentPort, portSource, announced, backendUp, timers, uiStatus, syncs, store, chatVars, rendVars, setVars >>

\* the reconnect timer with the shutdown test inverted
ReconnectBody_Inverted ==
    IF isQuitting THEN ConnectWebSocket ELSE UNCHANGED << sockets, created, ws >>

\* the body of a reconnect timer: if (!isQuitting) connectWebSocket()
ReconnectBody ==
    IF ~isQuitting THEN ConnectWebSocket ELSE UNCHANGED << sockets, created, ws >>

\* a reconnect timer armed by a 'close' or 'error' handler fires
ReconnectTimer ==
    /\ ~appExited /\ timers > 0
    /\ timers' = timers - 1
    /\ ReconnectBody
    /\ UNCHANGED << scriptExists, fetchAvailable, appPc, appExited, winPc,
                    beforeQuitDone, mainWindow, isQuitting, pythonProcess, procState,
                    procKilled, procSignals, spawnCount, killTimers, portFile,
                    currentPort, portSource, announced, backendUp, initTimer, uiStatus, syncs, store, chatVars, rendVars, setVars >>

\* syncSettingsWithBackend: one POST of the store's current contents to
\* /settings/sync-frontend on currentPort, its answer still to come, or none
\* without a fetch implementation
SyncSettingsWithBackend ==
    IF fetchAvailable
    THEN Append(syncs, [ port |-> currentPort, body |-> SettingsData(store),
                         result |-> "pending" ])
    ELSE syncs

\* ws.on('open'): the handshake of socket s succeeds
SocketOpen(s) ==
    /\ ~appExited /\ sockets[s].st = "CONNECTING" /\ backendUp
    /\ sockets' = [sockets EXCEPT ![s].st = "OPEN"]
    /\ uiStatus' = Notify([ connected |-> TRUE, pythonRunning |-> TRUE,
                            port |-> currentPort ])
    /\ backendConnected' = Heard(TRUE)
    /\ syncs' = SyncSettingsWithBackend
    /\ UNCHANGED << scriptExists, fetchAvailable, appPc, appExited, winPc,
                    beforeQuitDone, mainWindow, isQuitting, pythonProcess, procState,
                    procKilled, procSignals, spawnCount, killTimers, portFile,
                    currentPort, portSource, announced, backendUp, initTimer, timers, created, ws, store, chatVars, isProcessing, awaited, setVars >>

\* the handshake of socket s fails: ws emits 'error' and then 'close'
SocketConnectFails(s) ==
    /\ ~appExited /\ sockets[s].st = "CONNECTING" /\ ~backendUp
    /\ sockets' = [sockets EXCEPT ![s].st = "CLOSED"]
    /\ CloseHandlers(TRUE)
    /\ UNCHANGED << scriptExists, fetchAvailable, appPc, appExited, winPc,
                    beforeQuitDone, mainWindow, isQuitting, pythonProcess, procState,
                    procKilled, procSignals, spawnCount, killTimers, portFile,
                    currentPort, portSource, announced, backendUp, initTimer, created, ws, syncs, store, chatVars, isProcessing, awaited, setVars >>

\* an open session drops: 'close' alone when the peer closes it, 'error' and
\* then 'close' when the transport breaks
SocketDrops(s, withError) ==
    /\ ~appExited /\ sockets[s].st = "OPEN"
    /\ sockets' = [sockets EXCEPT ![s].st = "CLOSED"]
    /\ CloseHandlers(withError)
    /\ UNCHANGED << scriptExists, fetchAvailable, appPc, appExited, winPc,
                    beforeQuitDone, mainWindow, isQuitting, pythonProcess, procState,
                    procKilled, procSignals, spawnCount, killTimers, portFile,
                    currentPort, portSource, announced, backendUp, initTimer, created, ws, syncs, store, chatVars, isProcessing, awaited, setVars >>

\* a socket that cleanup() closed finishes closing: an aborted handshake emits
\* 'error' and 'close', a closed session 'close'
SocketClosed(s) ==
    /\ ~appExited /\ sockets[s].st \in { "ABORTING", "CLOSING" }
    /\ sockets' = [sockets EXCEPT ![s].st = "CLOSED"]
    /\ CloseHandlers(sockets[s].st = "ABORTING")
    /\ UNCHANGED << scriptExists, fetchAvailable, appPc, appExited, winPc,
                    beforeQuitDone, mainWindow, isQuitting, pythonProcess, procState,
                    procKilled, procSignals, spawnCount, killTimers, portFile,
                    currentPort, portSource, announced, backendUp, initTimer, created, ws, syncs, store, chatVars, isProcessing, awaited, setVars >>

\* how the POST of a settings sync can end: a success status with a JSON body
\* ("synced"), another status ("status"), or fetch or response.json() rejecting
\* ("threw"); with nothing listening fetch rejects
SyncOutcomes == IF backendUp THEN { "synced", "status", "threw" } ELSE { "threw" }

\* SyncResult with a failed sync posted again
SyncResult_Retry(i, outcome) ==
    /\ ~appExited /\ i \in 1 .. Len(syncs) /\ syncs[i].result = "pending"
    /\ outcome \in SyncOutcomes
    /\ syncs' = IF outcome = "synced" \/ Len(syncs) >= MaxSockets
                THEN [syncs EXCEPT ![i].result = outcome]
                ELSE Append([syncs EXCEPT ![i].result = outcome],
                            [syncs[i] EXCEPT !.result = "pending"])
    /\ UNCHANGED << scriptExists, fetchAvailable, appPc, appExited, winPc,
                    beforeQuitDone, mainWindow, isQuitting, pythonProcess, procState,
                    procKilled, procSignals, spawnCount, killTimers, portFile,
                    currentPort, portSource, announced, backendUp, initTimer, timers,
                    sockets, created, ws, uiStatus, store, chatVars, rendVars, setVars >>

\* syncSettingsWithBackend after its fetch settled: every way it ends is logged,
\* and nothing else is done
SyncResult(i, outcome) ==
    /\ ~appExited /\ i \in 1 .. Len(syncs) /\ syncs[i].result = "pending"
    /\ outcome \in SyncOutcomes
    /\ syncs' = [syncs EXCEPT ![i].result = outcome]
    /\ UNCHANGED << scriptExists, fetchAvailable, appPc, appExited, winPc,
                    beforeQuitDone, mainWindow, isQuitting, pythonProcess, procState,
                    procKilled, procSignals, spawnCount, killTimers, portFile,
                    currentPort, portSource, announced, backendUp, initTimer, timers,
                    sockets, created, ws, uiStatus, store, chatVars, rendVars, setVars >>

(* ------------------------------- shutdown ------------------------------- *)
\* mainWindow.on('close'): the user closes the main window, or a quit closes it
MainWindowClose ==
    /\ ~appExited /\ winPc = "open"
    /\ winPc' = "closing"
    /\ isQuitting' = TRUE
    /\ Cleanup
    /\ UNCHANGED << scriptExists, fetchAvailable, appPc, appExited, beforeQuitDone,
                    mainWindow, procState, spawnCount, portFile, currentPort, portSource, announced,
                    backendUp, initTimer, timers, created, uiStatus, syncs, store, chatVars, rendVars, setVars >>

\* mainWindow.on('closed'): the reference is dropped and app.quit() is called
MainWindowClosed ==
    /\ ~appExited /\ winPc = "closing"
    /\ winPc' = "closed"
    /\ mainWindow' = FALSE
    /\ UNCHANGED << scriptExists, fetchAvailable, appPc, appExited, beforeQuitDone,
                    isQuitting, pythonProcess, procState, procKilled, procSignals,
                    spawnCount, killTimers, portFile, currentPort, portSource, announced, backendUp,
                    initTimer, timers, sockets, created, ws, uiStatus, syncs, store, chatVars, rendVars, setVars >>

\* app.on('before-quit'): the user quits the application, or app.quit() was
\* called by the 'closed' handler
BeforeQuit ==
    /\ ~appExited /\ ~beforeQuitDone /\ winPc \in { "open", "closed" }
    /\ beforeQuitDone' = TRUE
    /\ isQuitting' = TRUE
    /\ Cleanup
    /\ UNCHANGED << scriptExists, fetchAvailable, appPc, appExited, winPc,
                    mainWindow, procState, spawnCount, portFile, currentPort, portSource, announced,
                    backendUp, initTimer, timers, created, uiStatus, syncs, store, chatVars, rendVars, setVars >>

\* app.on('window-all-closed'), should Electron emit it once the main window has
\* gone: if (!mainWindow) { isQuitting = true; cleanup(); app.quit() }
WindowAllClosed ==
    /\ ~appExited /\ winPc = "closed" /\ ~mainWindow
    /\ isQuitting' = TRUE
    /\ Cleanup
    /\ UNCHANGED << scriptExists, fetchAvailable, appPc, appExited, winPc, beforeQuitDone,
                    mainWindow, procState, spawnCount, portFile, currentPort, portSource, announced,
                    backendUp, initTimer, timers, created, uiStatus, syncs, store, chatVars, rendVars, setVars >>

\* the force-kill timer of cleanup():
\* if (pythonProcess && !pythonProcess.killed) pythonProcess.kill('SIGKILL')
ForceKill ==
    IF pythonProcess /\ ~procKilled /\ procState = "running"
    THEN Append(procSignals, "SIGKILL") ELSE procSignals

ForceKillTimer ==
    /\ ~appExited /\ killTimers > 0
    /\ killTimers' = killTimers - 1
    /\ procSignals' = ForceKill
    /\ UNCHANGED << scriptExists, fetchAvailable, appPc, appExited, winPc,
                    beforeQuitDone, mainWindow, isQuitting, pythonProcess, procState,
                    procKilled, spawnCount, portFile, currentPort, portSource, announced, backendUp,
                    initTimer, timers, sockets, created, ws, uiStatus, syncs, store, chatVars, rendVars, setVars >>

\* the quit sequence ends and the main process exits: nothing runs after it
AppExit ==
    /\ ~appExited /\ beforeQuitDone /\ winPc = "closed"
    /\ appExited' = TRUE
    /\ UNCHANGED << scriptExists, fetchAvailable, appPc, winPc, beforeQuitDone,
                    mainWindow, isQuitting, pythonProcess, procState, procKilled,
                    procSignals, spawnCount, killTimers, portFile, currentPort, portSource, announced,
                    backendUp, initTimer, timers, sockets, created, ws, uiStatus,
                    syncs, store, chatVars, rendVars, setVars >>

(* --------------------------------- chat --------------------------------- *)
\* a chat window that takes every send, whatever is in flight
Busy_Never == FALSE

\* sendMessage of the chat window: if (this.isProcessing) return
Busy == isProcessing

\* sendMessage of the chat window up to its await: dropped while a send is being
\* processed, answered by the window itself while it believes the backend is
\* not connected, else handed to the main process
SendMessageCall ==
    IF Busy THEN "dropped" ELSE IF backendConnected THEN "invoke" ELSE "fallback"

\* the chat window sends a message and ipcMain.handle('send-message') takes it:
\* the flag is set and the call awaited
SendMessage ==
    /\ ~appExited /\ mainWindow /\ sent < MaxChats
    /\ SendMessageCall = "invoke"
    /\ isProcessing' = TRUE
    /\ awaited' = awaited \cup { sent + 1 }
    /\ sent' = sent + 1
    /\ chats' = [chats EXCEPT ![sent + 1] = SendToPython.chat]
    /\ framesOut' = framesOut + SendToPython.frames
    /\ UNCHANGED << coreVars, uncaught, uiMessage, now, backendConnected, setVars >>

\* the send-message call for request c has returned to the chat window: the
\* result is shown and the finally block clears the flag
SendReturns(c) ==
    /\ ~appExited /\ mainWindow
    /\ c \in awaited /\ chats[c].outcome # "none"
    /\ awaited' = awaited \ { c }
    /\ isProcessing' = FALSE
    /\ UNCHANGED << coreVars, chatVars, backendConnected, setVars >>

\* View > Reload: the page of the main window is loaded again. The new chat
\* window awaits nothing, and its checkBackendStatus asks get-backend-status;
\* the clock has advanced by then
Reload ==
    /\ ~appExited /\ mainWindow /\ winPc = "open" /\ now < MaxClock
    /\ isProcessing' = FALSE
    /\ awaited' = { }
    /\ backendConnected' = Connected
    /\ now' = now + 1
    /\ UNCHANGED << coreVars, chats, sent, framesOut, uncaught, uiMessage, setVars >>

\* the timeout of chat request c elapses
ChatTimeout(c) ==
    /\ ~appExited /\ chats[c].timer
    /\ chats' = [chats EXCEPT ![c] = TimeoutBody(chats[c])]
    /\ UNCHANGED << coreVars, sent, framesOut, uncaught, uiMessage, now, rendVars, setVars >>

\* ws.on('message') of connectWebSocket: a frame that parses is sent to the main
\* window as 'backend-message', whatever its type; a parse error is logged
ForwardMessage(kind) ==
    IF kind # "garbage" /\ mainWindow THEN << kind >> ELSE uiMessage

\* a frame arrives on socket s (a closing socket still delivers frames): the
\* message handler of connectWebSocket runs first, then the response handlers
Frame(s, kind) ==
    /\ ~appExited /\ sockets[s].st \in { "OPEN", "CLOSING" }
    /\ uiMessage' = ForwardMessage(kind)
    /\ LET r == RunHandlers(chats, 1, s, kind)
       IN  /\ chats' = r.chats
           /\ uncaught' = (uncaught \/ r.threw)
    /\ UNCHANGED << coreVars, sent, framesOut, now, rendVars, setVars >>

\* the millisecond clock read by Date.now() advances
Tick ==
    /\ ~appExited /\ now < MaxClock
    /\ now' = now + 1
    /\ UNCHANGED << coreVars, chats, sent, framesOut, uncaught, uiMessage, rendVars, setVars >>

\* Date.now() reads the system clock, which is not monotonic: the clock is set
\* back (a time synchronisation step, or the user sets the time)
ClockSetBack ==
    /\ ~appExited /\ now > 0
    /\ \E t \in 0 .. now - 1 : now' = t
    /\ UNCHANGED << coreVars, chats, sent, framesOut, uncaught, uiMessage, rendVars, setVars >>

(* ---------------------------- settings window --------------------------- *)
\* the relay of send-backend-request reaches the backend: a fetch implementation
\* exists, the port is a number and the backend answers on it; otherwise the
\* handler returns { success: false, error }
Reachable == fetchAvailable /\ backendUp /\ currentPort # NaN

\* milliseconds the backend can take to answer a request
ResponseTimes == { 1000, 60000, 150000 }

\* what can happen to the HTTP exchange of one relayed request: no fetch function
\* is found, fetch rejects (nothing listens, or the abort timer fired), the
\* response has a non-success status, its body is not JSON, or it is a JSON body
\* with a success flag
HttpAnswers ==
    IF ~fetchAvailable THEN { [ kind |-> "nofetch", code |-> 0, success |-> FALSE ] }
    ELSE IF ~Reachable THEN { [ kind |-> "refused", code |-> 0, success |-> FALSE ] }
    ELSE { [ kind |-> "abort", code |-> 0, success |-> FALSE ],
           [ kind |-> "status", code |-> 404, success |-> FALSE ],
           [ kind |-> "status", code |-> 500, success |-> FALSE ],
           [ kind |-> "badjson", code |-> 200, success |-> FALSE ],
           [ kind |-> "json", code |-> 200, success |-> TRUE ],
           [ kind |-> "json", code |-> 200, success |-> FALSE ] }

\* the same with ms, the time the backend takes to answer
HttpOutcomes ==
    { [ kind |-> a.kind, code |-> a.code, success |-> a.success, ms |-> t ] :
        a \in HttpAnswers, t \in (IF Reachable THEN ResponseTimes ELSE { 0 }) }

\* the endpoints the UI asks for
Endpoints ==
    { "/model/check", "/model/download", "/model/progress", "/model/switch",
      "/model/current" }

\* a request path as the sequence of its segments
UrlPath(url) ==
    CASE url = "/model/check" -> << "model", "check" >>
      [] url = "/model/download" -> << "model", "download" >>
      [] url = "/model/progress" -> << "model", "progress" >>
      [] url = "/model/switch" -> << "model", "switch" >>
      [] url = "/model/current" -> << "model", "current" >>
      [] OTHER -> << >>

\* String.prototype.includes, segment by segment
Includes(path, part) ==
    \E i \in 1 .. Len(path) - Len(part) + 1 :
        SubSeq(path, i, i + Len(part) - 1) = part

\* a relay that takes every path under /model for a download
TimeoutMs_AnyModelPath(url) ==
    IF Includes(UrlPath(url), << "model" >>) THEN DownloadTimeoutMs ELSE RequestTimeoutMs

\* timeoutMs: request.url.includes('/model/download') ? 120000 : 30000
TimeoutMs(url) ==
    IF Includes(UrlPath(url), << "model", "download" >>)
    THEN DownloadTimeoutMs ELSE RequestTimeoutMs

\* `HTTP ${response.status}: ${response.statusText}`
StatusError(code) == IF code = 404 THEN "HTTP 404: Not Found" ELSE "HTTP 500: Internal Server Error"

\* the handler with the status test left out: the body of any response is taken
SendBackendRequest_NoStatusTest(url, http) ==
    [ url |-> url, port |-> currentPort, timeoutMs |-> TimeoutMs(url), http |-> http,
      threw |-> FALSE,
      result |->
        CASE http.kind = "nofetch" -> [ success |-> FALSE, error |-> "No fetch implementation available" ]
          [] http.kind = "refused" -> [ success |-> FALSE, error |-> "fetch failed" ]
          [] http.kind = "abort" -> [ success |-> FALSE, error |-> "This operation was aborted" ]
          [] http.kind = "status" -> [ success |-> TRUE, error |-> "" ]
          [] http.kind = "badjson" -> [ success |-> FALSE, error |-> "Unexpected token" ]
          [] OTHER -> [ success |-> http.success, error |-> IF http.success THEN "" ELSE "backend" ] ]

\* what the handler returns for each way the HTTP exchange ends: the catch
\* returns { success: false, error: error.message }; a JSON body of a response
\* with a success status is returned as it is
RelayResult(http) ==
    CASE http.kind = "nofetch" -> [ success |-> FALSE, error |-> "No fetch implementation available" ]
      [] http.kind = "refused" -> [ success |-> FALSE, error |-> "fetch failed" ]
      [] http.kind = "abort" -> [ success |-> FALSE, error |-> "This operation was aborted" ]
      [] http.kind = "status" -> [ success |-> FALSE, error |-> StatusError(http.code) ]
      [] http.kind = "badjson" -> [ success |-> FALSE, error |-> "Unexpected token" ]
      [] OTHER -> [ success |-> http.success, error |-> IF http.success THEN "" ELSE "backend" ]

\* ipcMain.handle('send-backend-request'): everything happens inside one try
\* block, so the handler never throws
SendBackendRequest(url, http) ==
    [ url |-> url, port |-> currentPort, timeoutMs |-> TimeoutMs(url), http |-> http,
      threw |-> FALSE, result |-> RelayResult(http) ]

\* the success flags the replies to a relayed request can carry
Successes == { RelayResult(a).success : a \in HttpAnswers }

\* a renderer invokes send-backend-request: the abort timer of the request fires
\* exactly when the backend has not answered within timeoutMs
RelayRequest(url, http) ==
    /\ ~appExited /\ mainWindow
    /\ Reachable => (http.kind = "abort" <=> http.ms >= TimeoutMs(url))
    /\ relay' = SendBackendRequest(url, http)
    /\ UNCHANGED << coreVars, chatVars, rendVars, settingsOpen, localStorage, jobs, saves,
                    statusText, loadChecks, progressShown, unhandled >>

\* the settings window is torn down: its renderer, with every interval and every
\* continuation waiting in it, is gone
TearDown(js) ==
    [ j \in DOMAIN js |->
        IF js[j].pc = "idle" THEN js[j]
        ELSE [ js[j] EXCEPT !.pc = "gone", !.interval = FALSE,
                            !.nPoll = 0, !.nSwitch = 0, !.nPersist = 0 ] ]

\* loadSettings: the form is filled from localStorage, setTheme writes the theme
\* back, and checkModelAvailability asks for the selected model
LoadSettings ==
    /\ localStorage' = SetKey(localStorage, "jarvis-theme",
                              LsGet(localStorage, "jarvis-theme", "light"))
    /\ statusText' = "Checking model availability..."
    /\ loadChecks' = loadChecks + 1

\* open-settings: createSettingsWindow, then the SettingsManager is constructed
OpenSettings ==
    /\ ~appExited /\ mainWindow /\ ~isQuitting /\ ~settingsOpen
    /\ settingsOpen' = TRUE
    /\ LoadSettings
    /\ UNCHANGED << coreVars, chatVars, rendVars, jobs, saves, progressShown, unhandled, relay >>

\* checkModelAvailability after its /model/check reply
AvailabilityResponse(success, available) ==
    /\ ~appExited /\ settingsOpen /\ loadChecks > 0
    /\ success \in Successes
    /\ loadChecks' = loadChecks - 1
    /\ statusText' = IF ~success THEN "Backend error"
                     ELSE IF available THEN "Model is available and ready to use"
                     ELSE "Model not found - will be downloaded when applied"
    /\ UNCHANGED << coreVars, chatVars, rendVars, settingsOpen, localStorage, jobs, saves, progressShown, unhandled, relay >>

\* the user closes the settings window
CloseSettings ==
    /\ ~appExited /\ settingsOpen
    /\ settingsOpen' = FALSE
    /\ jobs' = TearDown(jobs)
    /\ loadChecks' = 0
    /\ UNCHANGED << coreVars, chatVars, rendVars, localStorage, saves, statusText, progressShown, unhandled, relay >>

\* no run of saveSettingsInternal is between its click and its return
NoSaveRunning == \A j \in 1 .. MaxSaves : jobs[j].pc \in { "idle", "returned", "gone" }

\* applySettings / saveAndCloseSettings: saveSettingsInternal up to its first
\* await, the /model/current request; the selected model is read before it
SaveClick(model, close) ==
    /\ ~appExited /\ settingsOpen /\ saves < MaxSaves /\ NoSaveRunning
    /\ saves' = saves + 1
    /\ jobs' = [jobs EXCEPT ![saves + 1] =
                   [ NoJob EXCEPT !.pc = "current", !.close = close, !.model = model ]]
    /\ UNCHANGED << coreVars, chatVars, rendVars, settingsOpen, localStorage, statusText,
                    loadChecks, progressShown, unhandled, relay >>

\* saveSettingsInternal returns true: the overlay goes, and saveAndCloseSettings
\* then closes the window
Returned(js, j) ==
    IF js[j].close THEN TearDown([js EXCEPT ![j].pc = "returned"])
    ELSE [js EXCEPT ![j].pc = "returned"]

\* the window after saveSettingsInternal of job j returned
OpenAfter(j) == settingsOpen /\ ~jobs[j].close

\* CurrentResponse that compares the selection with localStorage only
CurrentResponse_LocalOnly(j, backendCurrentModel, form) ==
    /\ ~appExited /\ settingsOpen /\ jobs[j].pc = "current"
    /\ backendCurrentModel \in (IF Reachable THEN Models \cup { NoModel } ELSE { NoModel })
    /\ LET job == jobs[j]
           previousModel == LsGet(localStorage, "jarvis-ai-model", DefaultModel)
           modelChanged ==
               previousModel # job.model
           written ==
               SetKey(SetKey(SetKey(SetKey(SetKey(localStorage,
                   "jarvis-theme", form.theme),
                   "jarvis-voice-enabled", BoolStr(form.voice)),
                   "jarvis-auto-start", BoolStr(form.auto)),
                   "jarvis-backend-port", form.port),
                   "jarvis-ai-model", job.model)
       IN /\ localStorage' = written
          /\ IF modelChanged
             THEN /\ jobs' = [jobs EXCEPT ![j].pc = "check", ![j].phase = "Checking",
                                          ![j].calls.check = @ + 1]
                  /\ UNCHANGED << settingsOpen, statusText, loadChecks >>
             ELSE /\ jobs' = Returned(jobs, j)
                  /\ statusText' = "Settings applied successfully!"
                  /\ settingsOpen' = OpenAfter(j)
                  /\ loadChecks' = IF OpenAfter(j) THEN loadChecks ELSE 0
    /\ UNCHANGED << coreVars, chatVars, rendVars, saves, progressShown, unhandled, relay >>

\* CurrentResponse that writes the preferences only when no model workflow runs
CurrentResponse_ModelFirst(j, backendCurrentModel, form) ==
    /\ ~appExited /\ settingsOpen /\ jobs[j].pc = "current"
    /\ backendCurrentModel \in (IF Reachable THEN Models \cup { NoModel } ELSE { NoModel })
    /\ LET job == jobs[j]
           previousModel == LsGet(localStorage, "jarvis-ai-model", DefaultModel)
           modelChanged ==
               \/ previousModel # job.model
               \/ backendCurrentModel # NoModel /\ backendCurrentModel # job.model
           written ==
               SetKey(SetKey(SetKey(SetKey(SetKey(localStorage,
                   "jarvis-theme", form.theme),
                   "jarvis-voice-enabled", BoolStr(form.voice)),
                   "jarvis-auto-start", BoolStr(form.auto)),
                   "jarvis-backend-port", form.port),
                   "jarvis-ai-model", job.model)
       IN /\ localStorage' = (IF modelChanged THEN localStorage ELSE written)
          /\ IF modelChanged
             THEN /\ jobs' = [jobs EXCEPT ![j].pc = "check", ![j].phase = "Checking",
                                          ![j].calls.check = @ + 1]
                  /\ UNCHANGED << settingsOpen, statusText, loadChecks >>
             ELSE /\ jobs' = Returned(jobs, j)
                  /\ statusText' = "Settings applied successfully!"
                  /\ settingsOpen' = OpenAfter(j)
                  /\ loadChecks' = IF OpenAfter(j) THEN loadChecks ELSE 0
    /\ UNCHANGED << coreVars, chatVars, rendVars, saves, progressShown, unhandled, relay >>

\* saveSettingsInternal after the /model/current reply: modelChanged, the form as
\* it stands now written to localStorage, setTheme, and either the /model/check
\* request or the plain success message
CurrentResponse(j, backendCurrentModel, form) ==
    /\ ~appExited /\ settingsOpen /\ jobs[j].pc = "current"
    /\ backendCurrentModel \in (IF Reachable THEN Models \cup { NoModel } ELSE { NoModel })
    /\ LET job == jobs[j]
           previousModel == LsGet(localStorage, "jarvis-ai-model", DefaultModel)
           modelChanged ==
               \/ previousModel # job.model
               \/ backendCurrentModel # NoModel /\ backendCurrentModel # job.model
           written ==
               SetKey(SetKey(SetKey(SetKey(SetKey(localStorage,
                   "jarvis-theme", form.theme),
                   "jarvis-voice-enabled", BoolStr(form.voice)),
                   "jarvis-auto-start", BoolStr(form.auto)),
                   "jarvis-backend-port", form.port),
                   "jarvis-ai-model", job.model)
       IN /\ localStorage' = written
          /\ IF modelChanged
             THEN /\ jobs' = [jobs EXCEPT ![j].pc = "check", ![j].phase = "Checking",
                                          ![j].calls.check = @ + 1]
                  /\ UNCHANGED << settingsOpen, statusText, loadChecks >>
             ELSE /\ jobs' = Returned(jobs, j)
                  /\ statusText' = "Settings applied successfully!"
                  /\ settingsOpen' = OpenAfter(j)
                  /\ loadChecks' = IF OpenAfter(j) THEN loadChecks ELSE 0
    /\ UNCHANGED << coreVars, chatVars, rendVars, saves, progressShown, unhandled, relay >>

\* CheckResponse with the download path taken for an available model too
CheckResponse_AlwaysDownload(j, success, available) ==
    /\ ~appExited /\ settingsOpen /\ jobs[j].pc = "check"
    /\ success \in Successes
    /\ IF FALSE
       THEN \* switch directly
            /\ jobs' = [jobs EXCEPT ![j].pc = "switch", ![j].phase = "Switching",
                                    ![j].avail = "yes", ![j].calls.switch = @ + 1]
            /\ UNCHANGED << settingsOpen, statusText, loadChecks >>
       ELSE IF success
       THEN \* showInfoMessage, then downloadAndSwitchModel up to the /model/download
            \* request
            /\ jobs' = [jobs EXCEPT ![j].pc = "download", ![j].phase = "Downloading",
                                    ![j].avail = IF available THEN "yes" ELSE "no",
                                    ![j].calls.download = @ + 1]
            /\ statusText' = "Starting model download..."
            /\ UNCHANGED << settingsOpen, loadChecks >>
       ELSE \* 'Unable to check model availability'
            /\ jobs' = Returned([jobs EXCEPT ![j].phase = "Failed"], j)
            /\ statusText' = "Model switching failed"
            /\ settingsOpen' = OpenAfter(j)
            /\ loadChecks' = IF OpenAfter(j) THEN loadChecks ELSE 0
    /\ UNCHANGED << coreVars, chatVars, rendVars, localStorage, saves, progressShown, unhandled, relay >>

\* CheckResponse with a failed check treated as "not available"
CheckResponse_DownloadOnFailure(j, success, available) ==
    /\ ~appExited /\ settingsOpen /\ jobs[j].pc = "check"
    /\ success \in Successes
    /\ IF success /\ available
       THEN \* switch directly
            /\ jobs' = [jobs EXCEPT ![j].pc = "switch", ![j].phase = "Switching",
                                    ![j].avail = "yes", ![j].calls.switch = @ + 1]
            /\ UNCHANGED << settingsOpen, statusText, loadChecks >>
       ELSE IF TRUE
       THEN \* showInfoMessage, then downloadAndSwitchModel up to the /model/download
            \* request
            /\ jobs' = [jobs EXCEPT ![j].pc = "download", ![j].phase = "Downloading",
                                    ![j].avail = "no", ![j].calls.download = @ + 1]
            /\ statusText' = "Starting model download..."
            /\ UNCHANGED << settingsOpen, loadChecks >>
       ELSE \* 'Unable to check model availability'
            /\ jobs' = Returned([jobs EXCEPT ![j].phase = "Failed"], j)
            /\ statusText' = "Model switching failed"
            /\ settingsOpen' = OpenAfter(j)
            /\ loadChecks' = IF OpenAfter(j) THEN loadChecks ELSE 0
    /\ UNCHANGED << coreVars, chatVars, rendVars, localStorage, saves, progressShown, unhandled, relay >>

\* saveSettingsInternal after the /model/check reply
CheckResponse(j, success, available) ==
    /\ ~appExited /\ settingsOpen /\ jobs[j].pc = "check"
    /\ success \in Successes
    /\ IF success /\ available
       THEN \* switch directly
            /\ jobs' = [jobs EXCEPT ![j].pc = "switch", ![j].phase = "Switching",
                                    ![j].avail = "yes", ![j].calls.switch = @ + 1]
            /\ UNCHANGED << settingsOpen, statusText, loadChecks >>
       ELSE IF success
       THEN \* showInfoMessage, then downloadAndSwitchModel up to the /model/download
            \* request
            /\ jobs' = [jobs EXCEPT ![j].pc = "download", ![j].phase = "Downloading",
                                    ![j].avail = "no", ![j].calls.download = @ + 1]
            /\ statusText' = "Starting model download..."
            /\ UNCHANGED << settingsOpen, loadChecks >>
       ELSE \* 'Unable to check model availability'
            /\ jobs' = Returned([jobs EXCEPT ![j].phase = "Failed"], j)
            /\ statusText' = "Model switching failed"
            /\ settingsOpen' = OpenAfter(j)
            /\ loadChecks' = IF OpenAfter(j) THEN loadChecks ELSE 0
    /\ UNCHANGED << coreVars, chatVars, rendVars, localStorage, saves, progressShown, unhandled, relay >>

\* saveSettingsInternal after the reply of the direct /model/switch
SwitchResponse(j, success) ==
    /\ ~appExited /\ settingsOpen /\ jobs[j].pc = "switch"
    /\ success \in Successes
    /\ IF success
       THEN /\ localStorage' = SetKey(localStorage, "jarvis-ai-model", jobs[j].model)
            /\ jobs' = [jobs EXCEPT ![j].pc = "persist", ![j].phase = "Done"]
            /\ UNCHANGED << settingsOpen, statusText, loadChecks >>
       ELSE /\ jobs' = Returned([jobs EXCEPT ![j].phase = "Failed"], j)
            /\ statusText' = "Model switching failed"
            /\ settingsOpen' = OpenAfter(j)
            /\ loadChecks' = IF OpenAfter(j) THEN loadChecks ELSE 0
            /\ UNCHANGED localStorage
    /\ UNCHANGED << coreVars, chatVars, rendVars, saves, progressShown, unhandled, relay >>

\* ipcMain.handle('save-settings'): store.set of every key handed over
SaveSettings(st, model) == SetKey(st, "jarvis-ai-model", model)

\* saveSettingsInternal after save-settings answered (ok) or threw (caught)
PersistDone(j, ok) ==
    /\ ~appExited /\ settingsOpen /\ jobs[j].pc = "persist"
    /\ store' = IF ok THEN SaveSettings(store, jobs[j].model) ELSE store
    /\ jobs' = Returned(jobs, j)
    /\ statusText' = "Successfully switched"
    /\ settingsOpen' = OpenAfter(j)
    /\ loadChecks' = IF OpenAfter(j) THEN loadChecks ELSE 0
    /\ UNCHANGED << scriptExists, fetchAvailable, appPc, appExited, winPc,
                    beforeQuitDone, mainWindow, isQuitting, pythonProcess, procState,
                    procKilled, procSignals, spawnCount, killTimers, portFile,
                    currentPort, portSource, announced, backendUp, initTimer, timers,
                    sockets, created, ws, uiStatus, syncs, chatVars, rendVars, localStorage,
                    saves, progressShown, unhandled, relay >>

\* downloadAndSwitchModel after the /model/download reply: on success the interval
\* is set and true is returned at once, so saveSettingsInternal replaces
\* 'Downloading model...' by its success message and returns; on failure the
\* error goes to the status text
DownloadResponse(j, success) ==
    /\ ~appExited /\ settingsOpen /\ jobs[j].pc = "download"
    /\ success \in Successes
    /\ IF success
       THEN /\ jobs' = Returned([jobs EXCEPT ![j].interval = TRUE], j)
            /\ statusText' = "Successfully downloaded and switched"
       ELSE /\ jobs' = Returned([jobs EXCEPT ![j].phase = "Failed"], j)
            /\ statusText' = "Error downloading model"
    /\ settingsOpen' = OpenAfter(j)
    /\ loadChecks' = IF OpenAfter(j) THEN loadChecks ELSE 0
    /\ UNCHANGED << coreVars, chatVars, rendVars, localStorage, saves, progressShown, unhandled, relay >>

\* the /model/progress requests issued so far by the jobs 1 .. j
RECURSIVE PollsIssued(_)
PollsIssued(j) == IF j = 0 THEN 0 ELSE jobs[j].calls.poll + PollsIssued(j - 1)

\* a poll interval that gives up after its first tick
PollTick_OneAttempt(j) ==
    /\ ~appExited /\ settingsOpen /\ jobs[j].interval /\ PollsIssued(MaxSaves) < MaxPolls
    /\ jobs[j].calls.poll < 1
    /\ jobs' = [jobs EXCEPT ![j].nPoll = @ + 1, ![j].calls.poll = @ + 1]
    /\ UNCHANGED << coreVars, chatVars, rendVars, settingsOpen, localStorage, saves,
                    statusText, loadChecks, progressShown, unhandled, relay >>

\* a tick of the poll interval: the callback runs up to its /model/progress request
PollTick(j) ==
    /\ ~appExited /\ settingsOpen /\ jobs[j].interval /\ PollsIssued(MaxSaves) < MaxPolls
    /\ jobs' = [jobs EXCEPT ![j].nPoll = @ + 1, ![j].calls.poll = @ + 1]
    /\ UNCHANGED << coreVars, chatVars, rendVars, settingsOpen, localStorage, saves,
                    statusText, loadChecks, progressShown, unhandled, relay >>

\* PollResponse with completion seen in the percentage only
PollResponse_ProgressOnly(j, reply) ==
    /\ ~appExited /\ settingsOpen /\ jobs[j].nPoll > 0
    /\ reply.success \in Successes
    /\ IF ~reply.success
       THEN \* 'Unable to get download progress, continuing...'
            /\ jobs' = [jobs EXCEPT ![j].nPoll = @ - 1]
            /\ UNCHANGED << statusText, progressShown, unhandled >>
       ELSE IF reply.progress >= 100
       THEN \* clearInterval, then the /model/switch request
            /\ jobs' = [jobs EXCEPT ![j].nPoll = @ - 1,
                                    ![j].interval = FALSE, ![j].nSwitch = @ + 1,
                                    ![j].phase = "Switching",
                                    ![j].calls.switch = @ + 1]
            /\ statusText' = "Loading new model..."
            /\ progressShown' = reply.progress
            /\ UNCHANGED unhandled
       ELSE IF reply.status = "failed"
       THEN \* clearInterval, then the callback rejects
            /\ jobs' = [jobs EXCEPT ![j].nPoll = @ - 1, ![j].interval = FALSE,
                                    ![j].phase = "Failed"]
            /\ progressShown' = reply.progress
            /\ unhandled' = TRUE
            /\ UNCHANGED statusText
       ELSE \* still downloading: only the progress bar moves
            /\ jobs' = [jobs EXCEPT ![j].nPoll = @ - 1]
            /\ progressShown' = reply.progress
            /\ UNCHANGED << statusText, unhandled >>
    /\ UNCHANGED << coreVars, chatVars, rendVars, settingsOpen, localStorage, saves,
                    loadChecks, relay >>

\* a poll callback after its /model/progress reply
PollResponse(j, reply) ==
    /\ ~appExited /\ settingsOpen /\ jobs[j].nPoll > 0
    /\ reply.success \in Successes
    /\ IF ~reply.success
       THEN \* 'Unable to get download progress, continuing...'
            /\ jobs' = [jobs EXCEPT ![j].nPoll = @ - 1]
            /\ UNCHANGED << statusText, progressShown, unhandled >>
       ELSE IF reply.status = "completed" \/ reply.progress >= 100
       THEN \* clearInterval, then the /model/switch request
            /\ jobs' = [jobs EXCEPT ![j].nPoll = @ - 1,
                                    ![j].interval = FALSE, ![j].nSwitch = @ + 1,
                                    ![j].phase = "Switching",
                                    ![j].calls.switch = @ + 1]
            /\ statusText' = "Loading new model..."
            /\ progressShown' = reply.progress
            /\ UNCHANGED unhandled
       ELSE IF reply.status = "failed"
       THEN \* clearInterval, then the callback rejects
            /\ jobs' = [jobs EXCEPT ![j].nPoll = @ - 1, ![j].interval = FALSE,
                                    ![j].phase = "Failed"]
            /\ progressShown' = reply.progress
            /\ unhandled' = TRUE
            /\ UNCHANGED statusText
       ELSE \* still downloading: only the progress bar moves
            /\ jobs' = [jobs EXCEPT ![j].nPoll = @ - 1]
            /\ progressShown' = reply.progress
            /\ UNCHANGED << statusText, unhandled >>
    /\ UNCHANGED << coreVars, chatVars, rendVars, settingsOpen, localStorage, saves,
                    loadChecks, relay >>

\* a poll callback after the reply of its /model/switch
PollSwitchResponse(j, success) ==
    /\ ~appExited /\ settingsOpen /\ jobs[j].nSwitch > 0
    /\ success \in Successes
    /\ IF success
       THEN /\ jobs' = [jobs EXCEPT ![j].nSwitch = @ - 1, ![j].nPersist = @ + 1,
                                    ![j].phase = "Done"]
            /\ statusText' = "Model loaded successfully!"
            /\ localStorage' = SetKey(localStorage, "jarvis-ai-model", jobs[j].model)
            /\ UNCHANGED unhandled
       ELSE \* the callback rejects; its catch clears the interval again
            /\ jobs' = [jobs EXCEPT ![j].nSwitch = @ - 1, ![j].interval = FALSE,
                                    ![j].phase = "Failed"]
            /\ unhandled' = TRUE
            /\ UNCHANGED << statusText, localStorage >>
    /\ UNCHANGED << coreVars, chatVars, rendVars, settingsOpen, saves, loadChecks, progressShown, relay >>

\* a poll callback after save-settings answered (ok) or threw (caught)
PollPersistDone(j, ok) ==
    /\ ~appExited /\ settingsOpen /\ jobs[j].nPersist > 0
    /\ store' = IF ok THEN SaveSettings(store, jobs[j].model) ELSE store
    /\ jobs' = [jobs EXCEPT ![j].nPersist = @ - 1]
    /\ UNCHANGED << scriptExists, fetchAvailable, appPc, appExited, winPc,
                    beforeQuitDone, mainWindow, isQuitting, pythonProcess, procState,
                    procKilled, procSignals, spawnCount, killTimers, portFile,
                    currentPort, portSource, announced, backendUp, initTimer, timers,
                    sockets, created, ws, uiStatus, syncs, chatVars, rendVars, settingsOpen,
                    localStorage, saves, statusText, loadChecks, progressShown, unhandled, relay >>

Next ==
    \/ AppReady
    \/ StdoutData
    \/ BackendWritesPortFile
    \/ BackendListens
    \/ PythonClose
    \/ GraceElapsed
    \/ InitialConnect
    \/ ReconnectTimer
    \/ \E s \in 1 .. MaxSockets : SocketOpen(s)
    \/ \E s \in 1 .. MaxSockets : SocketConnectFails(s)
    \/ \E s \in 1 .. MaxSockets, withError \in BOOLEAN : SocketDrops(s, withError)
    \/ \E s \in 1 .. MaxSockets : SocketClosed(s)
    \/ MainWindowClose
    \/ MainWindowClosed
    \/ BeforeQuit
    \/ WindowAllClosed
    \/ ForceKillTimer
    \/ AppExit

\* supervisor, port discovery, session lifecycle and shutdown
Spec == Init /\ [][Next]_vars

\* timers that are due fire, and a handshake with a listening backend completes
FairSpec ==
    /\ Spec
    /\ WF_vars(ReconnectTimer)
    /\ \A s \in 1 .. MaxSockets : WF_vars(SocketOpen(s))

\* the session lifecycle and shutdown, with the chat requests that one chat
\* window, never reloaded, makes on the sessions.
\* Left out are the steps that write only the port, the subprocess state and the
\* status sent to the UI, none of which a chat request reads.
NextChat ==
    \/ SendMessage
    \/ \E c \in 1 .. MaxChats : SendReturns(c)
    \/ \E c \in 1 .. MaxChats : ChatTimeout(c)
    \/ \E s \in 1 .. MaxSockets, kind \in FrameKinds : Frame(s, kind)
    \/ AppReady
    \/ BackendListens
    \/ GraceElapsed
    \/ InitialConnect
    \/ ReconnectTimer
    \/ \E s \in 1 .. MaxSockets : SocketOpen(s)
    \/ \E s \in 1 .. MaxSockets : SocketConnectFails(s)
    \/ \E s \in 1 .. MaxSockets : SocketDrops(s, FALSE)
    \/ \E s \in 1 .. MaxSockets : SocketClosed(s)
    \/ MainWindowClose
    \/ MainWindowClosed
    \/ BeforeQuit
    \/ AppExit

\* the backend script is on disk, no sidecar file was left behind, and no fetch
\* implementation is found, so that a session open posts no settings sync
InitChat == Init /\ scriptExists /\ ~fetchAvailable /\ portFile = Absent

SpecChat == InitChat /\ [][NextChat]_vars

\* the chat specification with what is bound to happen: a timeout that is armed
\* fires (after 30000 ms) unless it is cleared first, and a quit sequence that
\* has run its handlers ends with the exit of the main process
FairChat ==
    /\ SpecChat
    /\ \A c \in 1 .. MaxChats : WF_vars(ChatTimeout(c))
    /\ WF_vars(AppExit)

\* chat sends over one session, with the clock of Date.now() running and the
\* chat window reloaded at any moment
NextIds ==
    \/ SendMessage
    \/ \E c \in 1 .. MaxChats : SendReturns(c)
    \/ Reload
    \/ Tick
    \/ ClockSetBack
    \/ \E c \in 1 .. MaxChats : ChatTimeout(c)
    \/ \E s \in 1 .. MaxSockets, kind \in FrameKinds : Frame(s, kind)
    \/ AppReady
    \/ BackendListens
    \/ GraceElapsed
    \/ InitialConnect
    \/ \E s \in 1 .. MaxSockets : SocketOpen(s)

SpecIds == InitChat /\ [][NextIds]_vars

\* the settings window and its relay over a started application whose backend
\* may listen
NextSettings ==
    \/ AppReady
    \/ BackendListens
    \/ OpenSettings
    \/ \E success, available \in BOOLEAN : AvailabilityResponse(success, available)
    \/ CloseSettings
    \/ \E model \in Models, close \in BOOLEAN : SaveClick(model, close)
    \/ \E j \in 1 .. MaxSaves, m \in Models \cup { NoModel }, form \in Forms :
          CurrentResponse(j, m, form)
    \/ \E j \in 1 .. MaxSaves, success, available \in BOOLEAN : CheckResponse(j, success, available)
    \/ \E j \in 1 .. MaxSaves, success \in BOOLEAN : SwitchResponse(j, success)
    \/ \E j \in 1 .. MaxSaves, ok \in BOOLEAN : PersistDone(j, ok)
    \/ \E j \in 1 .. MaxSaves, success \in BOOLEAN : DownloadResponse(j, success)
    \/ \E j \in 1 .. MaxSaves : PollTick(j)
    \/ \E j \in 1 .. MaxSaves, reply \in ProgressReplies : PollResponse(j, reply)
    \/ \E j \in 1 .. MaxSaves, success \in BOOLEAN : PollSwitchResponse(j, success)
    \/ \E j \in 1 .. MaxSaves, ok \in BOOLEAN : PollPersistDone(j, ok)

InitSettings == Init /\ scriptExists /\ fetchAvailable /\ portFile = Absent

SpecSettings == InitSettings /\ [][NextSettings]_vars

\* the settings window next to the session, which connects, drops and reconnects
NextSync ==
    \/ NextSettings
    \/ GraceElapsed
    \/ InitialConnect
    \/ ReconnectTimer
    \/ \E s \in 1 .. MaxSockets : SocketOpen(s)
    \/ \E s \in 1 .. MaxSockets : SocketDrops(s, FALSE)

SpecSync == InitSettings /\ [][NextSync]_vars

\* the session on its own: connects, drops and reconnects, each open posting a
\* settings sync that may fail
NextSession ==
    \/ AppReady
    \/ BackendListens
    \/ PythonClose
    \/ GraceElapsed
    \/ InitialConnect
    \/ ReconnectTimer
    \/ \E s \in 1 .. MaxSockets : SocketOpen(s)
    \/ \E s \in 1 .. MaxSockets : SocketConnectFails(s)
    \/ \E s \in 1 .. MaxSockets, withError \in BOOLEAN : SocketDrops(s, withError)
    \/ \E i \in 1 .. MaxSockets, outcome \in { "synced", "status", "threw" } :
          SyncResult(i, outcome)

InitSession == Init /\ scriptExists /\ portFile = Absent

SpecSession == InitSession /\ [][NextSession]_vars

\* the relay on its own, called at any moment of the supervisor's life
NextRelay ==
    \/ AppReady
    \/ StdoutData
    \/ BackendListens
    \/ PythonClose
    \/ GraceElapsed
    \/ \E url \in Endpoints, http \in HttpOutcomes : RelayRequest(url, http)

SpecRelay == Init /\ [][NextRelay]_vars

(* ================================ claims ================================ *)
CycleEdges ==
    { << "Disconnected", "Connecting" >>, << "Connecting", "Connected" >>,
      << "Connected", "Disconnected" >> }

\* C1: the connection state changes only along the cycle
\* Disconnected -> Connecting -> Connected -> Disconnected; no other edge occurs.
C1_CycleOnly ==
    [][ConnState' # ConnState => << ConnState, ConnState' >> \in CycleEdges]_vars

\* C1, read with the edge a failed or aborted attempt needs: what is left to
\* fail is an open session replaced by a new attempt
C1_CycleOrFailedAttempt ==
    [][ConnState' # ConnState =>
          << ConnState, ConnState' >> \in
              CycleEdges \cup { << "Connecting", "Disconnected" >> }]_vars

\* C4: when an open session drops, the UI is told connected=false and a
\* reconnect is scheduled; while the application is not shutting down and the
\* backend stays reachable, a session reaches Connected again
C4_DropNotifiesAndReconnects ==
    /\ [][\A s \in 1 .. MaxSockets :
             sockets[s].st = "OPEN" /\ sockets'[s].st = "CLOSED" =>
                 /\ timers' > timers
                 /\ mainWindow => uiStatus' # << >> /\ ~uiStatus'[1].connected]_vars
    /\ []((ConnState = "Disconnected" /\ timers > 0 /\ created < MaxSockets)
             => ([](backendUp /\ ~isQuitting) => <>Connected))

\* a first session opened and dropped, and the session made by the reconnect
\* is open
C4_Witness ==
    /\ created = 2 /\ ws = 2 /\ Connected
    /\ sockets[1].st = "CLOSED"
    /\ Len(syncs) = 2
    /\ uiStatus = << [ connected |-> TRUE, pythonRunning |-> TRUE, port |-> currentPort ] >>

\* C5: once the shutdown flag is set, no new connection attempt is started
C5_NoConnectWhileQuitting == [][isQuitting => created' = created]_vars

\* C5 on the reconnect paths alone (the timers armed by 'close' and 'error')
C5_NoReconnectWhileQuitting ==
    [][isQuitting /\ initTimer' = initTimer => created' = created]_vars

C8_MissingScript ==
    ~scriptExists =>
        /\ spawnCount = 0
        /\ ~pythonProcess
        /\ procState = "none"
        /\ appPc \in { "init", "notstarted" }
        /\ (appPc = "notstarted" /\ ~isQuitting => mainWindow /\ ~appExited /\ ~uncaught)

C8_Witness == ~scriptExists /\ appPc = "notstarted" /\ mainWindow /\ ~isQuitting

C3_NotConnectedFailsAtOnce ==
    [][sent' = sent + 1 /\ (ws = NoSock \/ sockets[ws].st # "OPEN") =>
          /\ SendMessageResult(chats'[sent'].outcome) =
                 [ success |-> FALSE, error |-> "WebSocket not connected" ]
          /\ ~chats'[sent'].timer
          /\ ~chats'[sent'].listener
          /\ framesOut' = framesOut]_vars

\* a send was refused while a socket existed that was not open
C3_Witness ==
    \E c \in 1 .. MaxChats :
        /\ chats[c].outcome = "notconnected"
        /\ ws # NoSock /\ sockets[ws].st = "CONNECTING"
        /\ framesOut = 0 /\ sent = 1
(* the settings window's view of the Preference Set: localStorage as loadSettings
   reads it back into the form *)
SavedPreferences ==
    [ model |-> LsGet(localStorage, "jarvis-ai-model", DefaultModel),
      voice |-> LsGet(localStorage, "jarvis-voice-enabled", "true") # "false",
      auto  |-> LsGet(localStorage, "jarvis-auto-start", "false") = "true",
      port  |-> LsGet(localStorage, "jarvis-backend-port", "8000"),
      theme |-> LsGet(localStorage, "jarvis-theme", "light") ]

\* the user has saved the form at least once
UserSaved == "jarvis-ai-model" \in DOMAIN localStorage

\* C6: every session open triggers exactly one settings sync POST, and once the
\* user has saved preferences its payload is the Preference Set as the user last
\* saved it.
C6_SyncSendsSavedPreferences ==
    [][\A s \in 1 .. MaxSockets :
          sockets[s].st = "CONNECTING" /\ sockets'[s].st = "OPEN" =>
              /\ Len(syncs') = Len(syncs) + 1
              /\ UserSaved => syncs'[Len(syncs')].body = SavedPreferences]_vars

\* every session open triggers exactly one settings sync POST, whose payload is
\* what the electron-store holds at that moment
C6_SyncSendsStore ==
    [][\A s \in 1 .. MaxSockets :
          sockets[s].st = "CONNECTING" /\ sockets'[s].st = "OPEN" =>
              syncs' = Append(syncs, [ port |-> currentPort, body |-> SettingsData(store),
                                       result |-> "pending" ])]_vars

\* C9: when the check call of a job reports available = true, the switch call is
\* issued in that very step, and no download call and no progress poll is ever
\* issued for the job.
C9_AvailableSwitchesDirectly ==
    /\ [](\A j \in 1 .. MaxSaves :
            jobs[j].avail = "yes" =>
                /\ jobs[j].calls.download = 0
                /\ jobs[j].calls.poll = 0
                /\ ~jobs[j].interval
                /\ jobs[j].phase # "Downloading")
    /\ [][\A j \in 1 .. MaxSaves :
            jobs[j].pc = "check" /\ jobs'[j].avail = "yes" =>
                /\ jobs'[j].calls.switch = 1
                /\ jobs'[j].phase = "Switching"]_vars

C9_Witness ==
    \E j \in 1 .. MaxSaves :
        /\ jobs[j].avail = "yes" /\ jobs[j].phase = "Done"
        /\ jobs[j].calls = [ check |-> 1, download |-> 0, poll |-> 0, switch |-> 1 ]

\* a progress reply that reports the download complete
Completing(reply) ==
    reply.success /\ (reply.status = "completed" \/ reply.progress >= 100)

\* C10: when the check call of a job reports available = false the job enters
\* Downloading with the start-download call; polls are issued only once that call
\* succeeded; a poll that reports progress >= 100 or status 'completed' issues
\* the switch call, nothing else does, and a successful switch call takes the
\* job to Done.
C10_UnavailableDownloadsThenSwitches ==
    [][\A j \in 1 .. MaxSaves :
          /\ jobs[j].pc = "check" /\ jobs'[j].avail = "no" =>
                /\ jobs'[j].phase = "Downloading"
                /\ jobs'[j].calls = [ check |-> 1, download |-> 1, poll |-> 0, switch |-> 0 ]
          /\ jobs'[j].calls.poll > jobs[j].calls.poll =>
                jobs[j].avail = "no" /\ jobs[j].interval /\ jobs[j].pc = "returned"
          /\ jobs'[j].nPoll < jobs[j].nPoll =>
                \A reply \in ProgressReplies :
                    Completing(reply) /\ PollResponse(j, reply) =>
                        /\ jobs'[j].calls.switch = jobs[j].calls.switch + 1
                        /\ jobs'[j].phase = "Switching"
          /\ jobs[j].avail = "no" /\ jobs'[j].calls.switch > jobs[j].calls.switch =>
                \E reply \in ProgressReplies : Completing(reply) /\ PollResponse(j, reply)
          /\ jobs'[j].nSwitch < jobs[j].nSwitch /\ PollSwitchResponse(j, TRUE) =>
                jobs'[j].phase = "Done"]_vars

C10_Witness ==
    \E j \in 1 .. MaxSaves :
        /\ jobs[j].avail = "no" /\ jobs[j].phase = "Done"
        /\ jobs[j].calls.download = 1 /\ jobs[j].calls.poll >= 1 /\ jobs[j].calls.switch = 1
        /\ progressShown < 100

\* C11: on shutdown with a running backend subprocess SIGTERM is sent, and when
\* the force-kill timer of that shutdown fires while the subprocess is still
\* running, SIGKILL is sent.
C11_TermThenKill ==
    [][/\ pythonProcess /\ ~pythonProcess' /\ procState = "running" =>
             procSignals' = Append(procSignals, "SIGTERM")
       /\ killTimers' < killTimers /\ procState = "running" =>
             procSignals' = Append(procSignals, "SIGKILL")]_vars

\* on shutdown with a running backend subprocess SIGTERM is sent and one
\* force-kill timer is armed
C11_TermOnShutdown ==
    [][pythonProcess /\ ~pythonProcess' /\ procState = "running" =>
          /\ procSignals' = Append(procSignals, "SIGTERM")
          /\ killTimers' = killTimers + 1]_vars

\* no SIGKILL is ever sent
C11_NeverKilled == \A i \in 1 .. Len(procSignals) : procSignals[i] # "SIGKILL"

\* the chat requests that a 'chat_response' frame on socket s satisfies: their
\* listener is on s and their promise is still pending
Satisfied(s) ==
    { c \in 1 .. MaxChats :
        chats[c].listener /\ chats[c].sock = s /\ chats[c].outcome = "none" }

\* C12: a frame that parses is forwarded to the UI as a backend message, except
\* a chat reply that satisfies a pending chat request: that frame settles the
\* request and is not forwarded as well.
C12_ReplyNotForwarded ==
    [][\A s \in 1 .. MaxSockets :
          /\ Frame(s, "other") /\ mainWindow => uiMessage' = << "other" >>
          /\ Frame(s, "chat_response") /\ mainWindow /\ Satisfied(s) = { } =>
                uiMessage' = << "chat_response" >>
          /\ Frame(s, "chat_response") /\ Satisfied(s) # { } /\ ws # NoSock =>
                /\ \A c \in Satisfied(s) : chats'[c].outcome = "reply"
                /\ uiMessage' = uiMessage]_vars

\* every frame that parses is forwarded to the UI while the main window exists,
\* a chat reply that settles a pending request included
C12_EveryParsedFrameForwarded ==
    [][\A s \in 1 .. MaxSockets, kind \in { "other", "chat_response" } :
          Frame(s, kind) /\ mainWindow => uiMessage' = << kind >>]_vars

\* C13: a relayed request whose HTTP response has a non-success status gives the
\* caller { success: false, error } with the status in the error; the handler
\* does not throw.
C13_StatusBecomesFailure ==
    relay.http.kind = "status" =>
        /\ ~relay.threw
        /\ relay.result = [ success |-> FALSE, error |-> StatusError(relay.http.code) ]

C13_Witness ==
    /\ relay.url = "/model/switch" /\ relay.http.kind = "status" /\ relay.http.code = 500
    /\ relay.result.error = "HTTP 500: Internal Server Error"

\* C14: no exception raised while a chat send or a relayed request is handled
\* leaves the request boundary: none escapes an event handler of the main
\* process, and a request whose handler failed is settled with a failure result.
C14_NoExceptionEscapes ==
    /\ ~uncaught
    /\ ~relay.threw
    /\ \A c \in 1 .. MaxChats :
          chats[c].sock # NoSock /\ chats[c].outcome = "none" => chats[c].timer

\* outside shutdown (the shared socket reference is set) no exception escapes
C14_NoEscapeWhileReferenceSet == [][ws' # NoSock => uncaught' = uncaught]_vars

\* the payload of the close handler of the backend process
BackendGone == [ connected |-> FALSE, pythonRunning |-> FALSE, port |-> Undefined ]

\* C15: when the backend subprocess exits, the UI (while the main window exists)
\* is told connected = false, pythonRunning = false; the backend is spawned at
\* most once, and never after it exited.
C15_ExitNotifiedNoRestart ==
    /\ [](spawnCount <= 1)
    /\ [][/\ procState # "exited" /\ procState' = "exited" =>
                 (mainWindow => uiStatus' = << BackendGone >>)
          /\ procState = "exited" => procState' = "exited" /\ spawnCount' = spawnCount]_vars

C15_Witness ==
    /\ procState = "exited" /\ spawnCount = 1 /\ uiStatus = << BackendGone >>
    /\ created > 0 /\ ~isQuitting

\* C16: a save triggers the Model Switch Workflow (its check call) exactly when
\* the selected model differs from the selection in localStorage or from the
\* active model the backend reports, if it reports one; a job that was not
\* triggered never issues a check, download or switch call.
C16_TriggeredIffChanged ==
    /\ [](\A j \in 1 .. MaxSaves : jobs[j].calls.check = 0 => jobs[j].calls = NoCalls)
    /\ [][\A j \in 1 .. MaxSaves, m \in Models \cup { NoModel }, form \in Forms :
             CurrentResponse(j, m, form) =>
                 LET differs ==
                         \/ LsGet(localStorage, "jarvis-ai-model", DefaultModel) # jobs[j].model
                         \/ m # NoModel /\ m # jobs[j].model
                 IN  /\ differs => jobs'[j].calls.check = 1 /\ jobs'[j].phase = "Checking"
                     /\ ~differs => jobs'[j].calls = NoCalls /\ jobs'[j].phase = "none"]_vars

C16_Witness ==
    \E j \in 1 .. MaxSaves :
        /\ jobs[j].pc = "returned" /\ jobs[j].calls = NoCalls /\ jobs[j].phase = "none"
        /\ backendUp /\ statusText = "Settings applied successfully!"
        /\ LsGet(localStorage, "jarvis-ai-model", "none") = jobs[j].model

\* a job triggered although localStorage already held the selected model: the
\* backend reported another active model
C16_WitnessDrift ==
    \E j \in 1 .. MaxSaves :
        /\ jobs[j].model = DefaultModel /\ jobs[j].pc = "check"
        /\ store = << >> /\ saves = 1

\* the outcome messages of the settings window, by kind
SuccessMessages ==
    { "Successfully switched", "Successfully downloaded and switched",
      "Model loaded successfully!" }

FailureMessages == { "Model switching failed", "Error downloading model" }

\* C17: whenever a model switch job ends, the status text shows an outcome
\* message of the matching kind: a failure message on the step that takes the job
\* to Failed, a success message once the run that took it to Done has finished.
C17_OutcomeMessageShown ==
    [][\A j \in 1 .. MaxSaves :
         /\ jobs[j].phase # "Failed" /\ jobs'[j].phase = "Failed" =>
                statusText' \in FailureMessages
         /\ jobs[j].phase # "Done" /\ jobs'[j].phase = "Done" /\ jobs'[j].pc # "persist" =>
                statusText' \in SuccessMessages
         /\ jobs[j].phase = "Done" /\ jobs[j].pc = "persist" /\ jobs'[j].pc = "returned" =>
                statusText' \in SuccessMessages]_vars

\* the paths that do show their outcome: every job that ends while
\* saveSettingsInternal is still running, and the success of the switch after a
\* download
C17_AwaitedOutcomesShown ==
    [][\A j \in 1 .. MaxSaves :
         /\ jobs[j].phase # "Failed" /\ jobs'[j].phase = "Failed"
                /\ jobs[j].pc \in { "check", "switch", "download" } =>
                statusText' \in FailureMessages
         /\ jobs[j].phase # "Done" /\ jobs'[j].phase = "Done" /\ jobs'[j].pc # "persist" =>
                statusText' \in SuccessMessages
         /\ jobs[j].phase = "Done" /\ jobs[j].pc = "persist" /\ jobs'[j].pc = "returned" =>
                statusText' \in SuccessMessages]_vars

\* a job that has failed while the window shows a success message
C17_FailedUnderSuccessMessage ==
    \E j \in 1 .. MaxSaves :
        jobs[j].phase = "Failed" /\ settingsOpen /\ statusText \in SuccessMessages

\* C18: when the /model/check call of a job returns no success, the job goes to
\* Failed on that step having issued no download and no switch call, and it
\* never issues one afterwards.
C18_CheckFailureFails ==
    /\ [][\A j \in 1 .. MaxSaves, available \in BOOLEAN :
            CheckResponse(j, FALSE, available) =>
                /\ jobs'[j].phase = "Failed"
                /\ jobs'[j].calls = [ NoCalls EXCEPT !.check = 1 ]
                /\ statusText' = "Model switching failed"]_vars
    /\ [][\A j \in 1 .. MaxSaves :
            jobs[j].phase = "Failed" /\ jobs[j].avail = "unknown" =>
                jobs'[j].calls = jobs[j].calls /\ jobs'[j].phase = "Failed"]_vars

C18_Witness ==
    \E j \in 1 .. MaxSaves :
        /\ jobs[j].phase = "Failed" /\ jobs[j].avail = "unknown"
        /\ jobs[j].calls = [ NoCalls EXCEPT !.check = 1 ]
        /\ jobs[j].pc = "returned" /\ ~jobs[j].interval
        /\ statusText = "Model switching failed"

\* C19: when the switch call of a job has succeeded, then by the time the run
\* that issued it finishes (the reply of save-settings has been handled and the
\* job is Done), both localStorage and the electron-store that
\* syncSettingsWithBackend reads hold the target model as 'jarvis-ai-model'.
C19_PersistedBeforeDone ==
    [][\A j \in 1 .. MaxSaves, ok \in BOOLEAN :
         PersistDone(j, ok) \/ PollPersistDone(j, ok) =>
             /\ LsGet(localStorage', "jarvis-ai-model", NoModel) = jobs[j].model
             /\ LsGet(store', "jarvis-ai-model", NoModel) = jobs[j].model
             /\ SettingsData(store').model = jobs[j].model]_vars

\* what does hold: the successful switch writes localStorage in its own step, and
\* a save-settings call that does not throw leaves the target model in the store
C19_PersistedWhenSaved ==
    [][\A j \in 1 .. MaxSaves :
         /\ SwitchResponse(j, TRUE) \/ PollSwitchResponse(j, TRUE) =>
                LsGet(localStorage', "jarvis-ai-model", NoModel) = jobs[j].model
         /\ PersistDone(j, TRUE) \/ PollPersistDone(j, TRUE) =>
                SettingsData(store').model = jobs[j].model]_vars

\* a job that is Done and has announced it while the store still lacks its model
C19_DoneNotInStore ==
    \E j \in 1 .. MaxSaves :
        /\ jobs[j].phase = "Done" /\ jobs[j].pc = "returned" /\ jobs[j].nPersist = 0
        /\ jobs[j].model # DefaultModel
        /\ statusText \in SuccessMessages
        /\ LsGet(localStorage, "jarvis-ai-model", NoModel) = jobs[j].model
        /\ SettingsData(store).model # jobs[j].model

\* the state shows that a session has opened: a socket is open or closing after
\* having been open, or a settings sync, which only the 'open' handler issues,
\* has been sent
SessionOpened ==
    \/ \E s \in 1 .. MaxSockets : sockets[s].st \in { "OPEN", "CLOSING" }
    \/ syncs # << >>

\* C20: once a session has opened, no step changes currentPort.
C20_PortFixedAfterOpen ==
    [][SessionOpened => currentPort' = currentPort]_vars

\* what does hold: once connectWebSocket has been called, only a stdout
\* announcement changes currentPort (the sidecar file is read once, before the
\* first connect), and the port of a socket is the one it was constructed with
C20_OnlyStdoutAfterConnect ==
    [][/\ created > 0 /\ currentPort' # currentPort =>
              portSource' = "stdout" /\ procState = "running"
       /\ \A s \in 1 .. MaxSockets :
              sockets[s].st # "NONE" => sockets'[s].port = sockets[s].port]_vars

\* a session is open on another port than the one status reports, relayed
\* requests and reconnects now use
C20_OpenOnOtherPort ==
    /\ ws # NoSock /\ sockets[ws].st = "OPEN"
    /\ sockets[ws].port # currentPort
    /\ uiStatus = << [ connected |-> TRUE, pythonRunning |-> TRUE, port |-> sockets[ws].port ] >>

\* the chat requests that are outstanding: sent and not yet settled
Outstanding == { c \in 1 .. MaxChats : chats[c].sock # NoSock /\ chats[c].outcome = "none" }

\* C21: any two chat requests that are outstanding at the same time carry
\* different ids.
C21_OutstandingIdsDiffer ==
    \A c \in Outstanding, d \in Outstanding : c # d => chats[c].id # chats[d].id

\* what does hold: the id of a frame is the decimal form of the clock reading at
\* the send, so two sends differ in their ids exactly when the clock advanced
\* between them
C21_IdIsClockReading ==
    [][SendMessage /\ ~NotConnected =>
           /\ chats'[sent'].id = NumberToString(now)
           /\ \A c \in 1 .. sent :
                  chats[c].sock # NoSock =>
                      (chats[c].id = chats'[sent'].id <=> ParseInt(chats[c].id) = now)]_vars

\* two outstanding requests sent in the same millisecond
C21_SameIdTwice ==
    /\ Outstanding = { 1, 2 }
    /\ chats[1].id = chats[2].id
    /\ chats[1].sock = chats[2].sock

Leaked(s) ==
    { c \in 1 .. MaxChats :
        chats[c].listener /\ chats[c].sock = s /\ chats[c].outcome = "timeout" }

TerminalPhases == { "Done", "Failed" }

\* C24: a job that has reached Done or Failed keeps that phase and issues no
\* further check, download, progress or switch call.
C24_TerminalPhasesStay ==
    [][\A j \in 1 .. MaxSaves :
         jobs[j].phase \in TerminalPhases =>
             jobs'[j].phase = jobs[j].phase /\ jobs'[j].calls = jobs[j].calls]_vars

\* what does hold: a job in Done or Failed with no poll callback still waiting
\* for a reply stays as it is, and no interval tick comes after either phase
C24_TerminalOnceQuiet ==
    [][\A j \in 1 .. MaxSaves :
         /\ jobs[j].phase \in TerminalPhases /\ jobs[j].nPoll = 0 /\ jobs[j].nSwitch = 0 =>
                jobs'[j].phase = jobs[j].phase /\ jobs'[j].calls = jobs[j].calls
         /\ jobs[j].phase \in TerminalPhases => jobs'[j].calls.poll = jobs[j].calls.poll]_vars

\* a job that was Done or Failed and is switching again
C24_LeftTerminal ==
    \E j \in 1 .. MaxSaves :
        /\ jobs[j].phase = "Switching" /\ jobs[j].calls.switch = 1 /\ jobs[j].nSwitch = 1
        /\ unhandled /\ jobs[j].calls.poll = 2

\* a progress reply that ends nothing: no success, or a progress below 100 with
\* a status that is neither 'completed' nor 'failed'
StillDownloading(reply) ==
    ~reply.success \/ (~Completing(reply) /\ reply.status # "failed")

\* C25: a progress reply that ends nothing leaves a downloading job in
\* Downloading with its interval set and no other call issued, however many
\* polls went before; and while the interval of a job is set in an open settings
\* window the next poll can always be issued (up to the polls a run of the model
\* holds).
C25_PollsWithoutBound ==
    /\ [][\A j \in 1 .. MaxSaves :
            jobs'[j].nPoll < jobs[j].nPoll /\ jobs[j].phase = "Downloading" =>
                \A reply \in ProgressReplies :
                    StillDownloading(reply) /\ PollResponse(j, reply) =>
                        /\ jobs'[j].phase = "Downloading"
                        /\ jobs'[j].interval = jobs[j].interval
                        /\ jobs'[j].calls = jobs[j].calls]_vars
    /\ [](\A j \in 1 .. MaxSaves :
            ~appExited /\ settingsOpen /\ jobs[j].interval
                /\ PollsIssued(MaxSaves) < MaxPolls => ENABLED PollTick(j))

\* a job still downloading, its interval set, after every poll of the run was
\* issued and answered without an end
C25_Witness ==
    \E j \in 1 .. MaxSaves :
        /\ jobs[j].phase = "Downloading" /\ jobs[j].interval /\ settingsOpen
        /\ jobs[j].calls.poll = MaxPolls /\ jobs[j].nPoll = 0
        /\ jobs[j].calls.switch = 0 /\ ~unhandled

\* the outcomes of a settings sync that are failures
SyncFailures == { "status", "threw" }

\* C26: a settings sync is posted by the open of a session and by nothing else,
\* once per open (none without a fetch implementation); when a sync fails no
\* further sync is posted, no socket changes state, the shared reference stays
\* and no reconnect timer is armed.
C26_FailedSyncLeavesSession ==
    [][/\ Len(syncs') # Len(syncs) =>
              /\ Len(syncs') = Len(syncs) + 1
              /\ \E s \in 1 .. MaxSockets :
                     sockets[s].st = "CONNECTING" /\ sockets'[s].st = "OPEN"
       /\ \A s \in 1 .. MaxSockets :
              SocketOpen(s) /\ ~fetchAvailable =>
                  syncs' = syncs /\ timers' = timers /\ ws' = ws
       /\ \A i \in 1 .. Len(syncs), outcome \in SyncFailures :
              SyncResult(i, outcome) =>
                  /\ Len(syncs') = Len(syncs)
                  /\ sockets' = sockets /\ ws' = ws /\ created' = created
                  /\ timers' = timers /\ uiStatus' = uiStatus
                  /\ ConnState' = ConnState]_vars

\* the sync of the first session failed and the session stayed up; the next sync
\* is the one of the next session
C26_Witness ==
    /\ Len(syncs) = 2 /\ created = 2
    /\ syncs[1].result \in SyncFailures /\ syncs[2].result = "pending"
    /\ sockets[1].st = "CLOSED" /\ sockets[2].st = "OPEN" /\ ws = 2
    /\ timers = 0

\* a session that is Connected with its failed sync behind it
C26_WitnessConnected ==
    /\ Len(syncs) = 1 /\ syncs[1].result = "status"
    /\ ConnState = "Connected" /\ timers = 0 /\ created = 1

\* C27: the relay gives a request the 120000 ms timeout exactly when its path is
\* /model/download and the 30000 ms timeout otherwise; a request the backend
\* does not answer within its timeout is aborted and yields a failure result,
\* and no other request is aborted.
C27_TimeoutByPath ==
    relay.url # "none" =>
        /\ relay.timeoutMs =
               (IF relay.url = "/model/download" THEN DownloadTimeoutMs ELSE RequestTimeoutMs)
        /\ relay.url = "/model/progress" => relay.timeoutMs = RequestTimeoutMs
        /\ relay.http.kind \notin { "nofetch", "refused" } =>
               /\ relay.http.ms >= relay.timeoutMs <=> relay.http.kind = "abort"
               /\ relay.http.kind = "abort" =>
                      /\ ~relay.threw
                      /\ relay.result = [ success |-> FALSE,
                                          error |-> "This operation was aborted" ]

\* a progress poll answered after 60 s is aborted
C27_Witness ==
    /\ relay.url = "/model/progress" /\ relay.http.ms = 60000
    /\ relay.timeoutMs = RequestTimeoutMs
    /\ relay.http.kind = "abort" /\ ~relay.result.success

\* a download request answered after 60 s is not
C27_WitnessDownload ==
    /\ relay.url = "/model/download" /\ relay.http.ms = 60000
    /\ relay.timeoutMs = DownloadTimeoutMs
    /\ relay.http.kind = "json" /\ relay.result.success

\* the sockets that are connecting or open
LiveSockets == { s \in 1 .. MaxSockets : sockets[s].st \in { "CONNECTING", "OPEN" } }

\* C28: at most one socket is connecting or open at any time, and at most one
\* reconnect timer is pending.
C28_OneSessionOneTimer ==
    Cardinality(LiveSockets) <= 1 /\ timers <= 1

\* what does hold: a close without an error arms one timer, and each timer that
\* fires makes one socket at most
C28_OneTimerPerCleanClose ==
    [][/\ \A s \in 1 .. MaxSockets :
              SocketDrops(s, FALSE) => timers' = timers + 1
       /\ timers' < timers => timers' = timers - 1 /\ created' <= created + 1]_vars

\* two sockets made by the two timers of one failed attempt, both connecting
C28_TwoConnecting ==
    /\ created = 3 /\ timers = 0
    /\ sockets[1].st = "CLOSED"
    /\ sockets[2].st = "CONNECTING" /\ sockets[3].st = "CONNECTING"
    /\ ws = 3

\* C29: every chat request that was sent is settled in the end, with a reply or
\* an error.
C29_EverySendSettles ==
    \A c \in 1 .. MaxChats :
        (chats[c].sock # NoSock) ~> (chats[c].outcome # "none")

\* what does hold: a request is settled in the end unless the shared socket
\* reference is cleared, or the main process exits, while it is pending
C29_SettlesWhileReferenceSet ==
    \A c \in 1 .. MaxChats :
        (chats[c].sock # NoSock) ~> (chats[c].outcome # "none" \/ ws = NoSock \/ appExited)

\* a request that nothing can settle any more: no timer, no outcome
C29_Stuck ==
    \E c \in 1 .. MaxChats :
        /\ chats[c].sock # NoSock /\ chats[c].outcome = "none" /\ ~chats[c].timer
        /\ ~appExited /\ uncaught

\* C30: a job issues the switch call once at most.
C30_SwitchAtMostOnce ==
    \A j \in 1 .. MaxSaves : jobs[j].calls.switch <= 1

\* what does hold: the direct path issues one switch call at most, and on the
\* download path there is one switch call for every poll that saw the download
\* complete, never more than the polls issued
C30_OneSwitchPerCompletedPoll ==
    /\ [](\A j \in 1 .. MaxSaves :
            /\ jobs[j].avail # "no" => jobs[j].calls.switch <= 1
            /\ jobs[j].avail = "no" => jobs[j].calls.switch <= jobs[j].calls.poll)
    /\ [][\A j \in 1 .. MaxSaves :
            jobs[j].avail = "no" /\ jobs'[j].calls.switch # jobs[j].calls.switch =>
                /\ jobs'[j].calls.switch = jobs[j].calls.switch + 1
                /\ jobs'[j].nPoll = jobs[j].nPoll - 1]_vars

\* two polls were outstanding together, both saw completion, both switch calls
\* are on their way
C30_TwoSwitches ==
    \E j \in 1 .. MaxSaves :
        /\ jobs[j].calls.poll = 2 /\ jobs[j].calls.switch = 2 /\ jobs[j].nSwitch = 2
        /\ ~jobs[j].interval /\ jobs[j].phase = "Switching"

\* the message saveSettingsInternal shows when downloadAndSwitchModel returned true
DownloadedMessage == "Successfully downloaded and switched"

\* C31: on the download path the 'successfully downloaded and switched' message
\* is written only by a step that leaves the job Done (download complete, switch
\* call succeeded), never while the job is Downloading or Switching.
C31_SuccessOnlyAfterSwitch ==
    [][\A j \in 1 .. MaxSaves :
         jobs[j].avail = "no" /\ jobs'[j].avail = "no"
             /\ jobs'[j] # jobs[j] /\ statusText' = DownloadedMessage =>
                 /\ jobs'[j].phase = "Done"
                 /\ jobs'[j].phase \notin { "Downloading", "Switching" }]_vars

\* what does hold: the message is written by the step that handles the reply of
\* the start-download call, before any poll; the success of the switch after the
\* download is reported by 'Model loaded successfully!', on the step to Done
C31_SuccessWhenDownloadStarts ==
    [][\A j \in 1 .. MaxSaves :
         /\ DownloadResponse(j, TRUE) =>
                /\ statusText' = DownloadedMessage
                /\ jobs'[j].phase = "Downloading"
                /\ jobs'[j].calls.poll = 0 /\ jobs'[j].calls.switch = 0
         /\ PollSwitchResponse(j, TRUE) =>
                statusText' = "Model loaded successfully!" /\ jobs'[j].phase = "Done"]_vars

\* the message is on the screen while the job downloads and no poll was made yet
C31_ReportedWhileDownloading ==
    \E j \in 1 .. MaxSaves :
        /\ jobs[j].phase = "Downloading" /\ jobs[j].interval /\ settingsOpen
        /\ jobs[j].calls.poll = 0 /\ jobs[j].calls.switch = 0
        /\ statusText = DownloadedMessage

\* the selected model as the settings window reads it from localStorage:
\* localStorage.getItem('jarvis-ai-model') || the default model
LocalModel(ls) == LsGet(ls, "jarvis-ai-model", DefaultModel)

\* C32: the selected model in localStorage changes only on a step that handles a
\* successful switch call, so a job that ends in Failed leaves it as it was
\* before the job started.
C32_SelectionChangesOnSwitchOnly ==
    [][LocalModel(localStorage') # LocalModel(localStorage) =>
          \E j \in 1 .. MaxSaves :
              /\ SwitchResponse(j, TRUE) \/ PollSwitchResponse(j, TRUE)
              /\ LocalModel(localStorage') = jobs[j].model]_vars

\* what does hold: the selection is written to localStorage when the form is
\* saved, before the check call; no step that takes a job to Failed writes
\* localStorage or the electron-store, and the electron-store is written only
\* after a switch call succeeded
C32_SelectionWrittenAtSave ==
    [][\A j \in 1 .. MaxSaves :
         /\ \A m \in Models \cup { NoModel }, form \in Forms :
                CurrentResponse(j, m, form) => LocalModel(localStorage') = jobs[j].model
         /\ jobs[j].phase # "Failed" /\ jobs'[j].phase = "Failed" =>
                localStorage' = localStorage /\ store' = store
         /\ store' # store /\ jobs'[j] # jobs[j] =>
                /\ jobs[j].pc = "persist" \/ jobs[j].nPersist > 0
                /\ jobs[j].calls.switch > 0
                /\ LocalModel(localStorage) = jobs[j].model]_vars

\* the only job of the run failed at its check, and localStorage, which held no
\* selection before it (the default model was selected), holds its target model
C32_FailedButSelectionChanged ==
    /\ saves = 1
    /\ jobs[1].phase = "Failed" /\ jobs[1].avail = "unknown" /\ jobs[1].model = "mistral"
    /\ jobs[1].calls.switch = 0
    /\ LocalModel(localStorage) = "mistral"
    /\ store = << >>

\* the requests of the chat window that are in flight: awaited and not settled
InFlight == { c \in awaited : chats[c].outcome = "none" }

\* C33: the chat window awaits one send-message call at most, and the flag is
\* set while it does; while the flag is set no further send reaches the main
\* process; and once the awaited call has settled, with a reply or an error, the
\* window's continuation is ready to run and clears the flag.
C33_OneSendInFlight ==
    /\ [](/\ Cardinality(awaited) <= 1
          /\ Cardinality(InFlight) <= 1
          /\ isProcessing <=> awaited # { })
    /\ [][/\ isProcessing => sent' = sent /\ framesOut' = framesOut
          /\ \A c \in 1 .. MaxChats :
                SendReturns(c) => ~isProcessing' /\ awaited' = { }]_vars
    /\ [](\A c \in awaited :
            chats[c].outcome # "none" /\ mainWindow /\ ~appExited => ENABLED SendReturns(c))

\* a first send failed by its timeout, the flag was cleared, and a second send
\* was taken and answered, after which the flag is clear again
C33_Witness ==
    /\ sent = 2 /\ ~isProcessing /\ awaited = { }
    /\ chats[1].outcome = "timeout" /\ chats[2].outcome = "reply"
    /\ mainWindow

\* a send is in flight with the flag set
C33_WitnessInFlight ==
    /\ isProcessing /\ awaited = { 2 } /\ InFlight = { 2 }
    /\ chats[1].outcome = "parseerror"

\* ipcMain.handle('get-backend-status'): the reply
GetBackendStatus ==
    [ connected |-> Connected, pythonRunning |-> PythonRunning, port |-> currentPort ]

\* C34: once the backend subprocess has exited, the get-backend-status reply
\* and every status notification sent from then on report pythonRunning = false.
C34_ExitedReportedNotRunning ==
    [][procState' = "exited" =>
          /\ ~GetBackendStatus'.pythonRunning
          /\ uiStatus' # uiStatus => ~uiStatus'[1].pythonRunning]_vars

\* what does hold: the notification of the exit itself reports the backend as not
\* running, and so do the status reply and every notification of a closed
\* session once cleanup() has dropped the handle
C34_NotRunningOnceCleanedUp ==
    /\ [](isQuitting => ~GetBackendStatus.pythonRunning)
    /\ [][/\ procState # "exited" /\ procState' = "exited" /\ mainWindow =>
                ~uiStatus'[1].pythonRunning
          /\ isQuitting /\ uiStatus' # uiStatus /\ ~uiStatus'[1].connected =>
                ~uiStatus'[1].pythonRunning]_vars

\* the backend exited on its own, its session closed after it, and both the
\* close notification and the status reply say it is running
C34_ExitedReportedRunning ==
    /\ procState = "exited" /\ procSignals = << >>
    /\ GetBackendStatus.pythonRunning
    /\ uiStatus = << [ connected |-> FALSE, pythonRunning |-> TRUE, port |-> currentPort ] >>
    /\ \E s \in 1 .. MaxSockets : sockets[s].st = "CLOSED"

\* the state cleanup() leaves: no socket reference, no process handle
Cleaned == ws = NoSock /\ ~pythonProcess

\* the terminate signals the subprocess was sent
TermSignals == { i \in 1 .. Len(procSignals) : procSignals[i] = "SIGTERM" }

\* C35: whichever of the handlers of main-window close, before-quit and
\* window-all-closed run cleanup(), and however often: the subprocess is sent
\* SIGTERM once at most; a run closes no socket but the one the shared reference
\* names, and leaves the reference cleared, so no socket is closed twice; and a
\* run that follows another changes no state.
C35_CleanupIdempotent ==
    /\ [](Cardinality(TermSignals) <= 1)
    /\ [][MainWindowClose \/ BeforeQuit \/ WindowAllClosed =>
             /\ Cleaned'
             /\ \A s \in 1 .. MaxSockets :
                    sockets'[s] # sockets[s] =>
                        /\ ws = s /\ sockets[s].st \in { "CONNECTING", "OPEN" }
                        /\ sockets'[s].st \in { "ABORTING", "CLOSING" }
             /\ Cleaned => UNCHANGED << sockets, ws, pythonProcess, procSignals,
                                        procKilled, killTimers >>]_vars

\* the handlers of main-window close and before-quit have both run over an open
\* session and a running subprocess: one SIGTERM, one force-kill timer at most
C35_Witness ==
    /\ beforeQuitDone /\ winPc = "closed" /\ Cleaned
    /\ procSignals = << "SIGTERM" >> /\ killTimers <= 1
    /\ \E s \in 1 .. MaxSockets : sockets[s].st \in { "CLOSING", "CLOSED" } /\ syncs # << >>


\* C36: in every reachable state the shared port is an integer.
C36_PortIsInteger == currentPort \in Nat

\* the port is an integer in every state but those that follow the read of a
\* sidecar file holding no leading digits; a stdout announcement always gives one
C36_NotANumberFromFileOnly ==
    /\ [](currentPort \notin Nat =>
              /\ portSource = "file" /\ portFile # Absent
              /\ ParseInt(Trim(portFile)) = NaN)
    /\ [][StdoutData /\ portSource' = "stdout" => currentPort' \in Nat]_vars

\* startup completed with a port that is not a number: the initial connect has
\* run and made no socket
C36_StartedWithoutPort ==
    /\ appPc = "started" /\ currentPort = NaN /\ ~initTimer /\ created = 0


\* the preferences of a form are what localStorage holds
Persisted(ls, form) ==
    /\ { "jarvis-theme", "jarvis-voice-enabled", "jarvis-auto-start",
         "jarvis-backend-port" } \subseteq DOMAIN ls
    /\ ls["jarvis-theme"] = form.theme
    /\ ls["jarvis-voice-enabled"] = BoolStr(form.voice)
    /\ ls["jarvis-auto-start"] = BoolStr(form.auto)
    /\ ls["jarvis-backend-port"] = form.port

\* the run of saveSettingsInternal of job j fails its model change on this step:
\* the check, the direct switch or the start of the download fails
ModelChangeFails(j) ==
    /\ jobs[j].pc \in { "check", "switch", "download" }
    /\ jobs[j].phase # "Failed" /\ jobs'[j].phase = "Failed"

\* C37: theme, voice, auto-start and port are in localStorage when the model
\* workflow of a save starts; a failure of the model change leaves them there,
\* saveSettingsInternal still returns true, and the window closes exactly when
\* the save came from Save & Close.
C37_FailureKeepsPreferences ==
    [][\A j \in 1 .. MaxSaves :
          /\ jobs[j].pc = "current" /\ jobs'[j].pc = "check" =>
                 \E form \in Forms : Persisted(localStorage', form)
          /\ ModelChangeFails(j) =>
                 /\ localStorage' = localStorage
                 /\ \E form \in Forms : Persisted(localStorage, form)
                 /\ jobs'[j].pc = (IF jobs[j].close THEN "gone" ELSE "returned")
                 /\ settingsOpen /\ settingsOpen' = ~jobs[j].close
                 /\ statusText' \in { "Model switching failed", "Error downloading model" }]_vars

\* Save & Close with the theme changed and another model selected; the model
\* change failed, the window is closed and the new theme is in localStorage
C37_Witness ==
    \E j \in 1 .. MaxSaves :
        /\ jobs[j].close /\ jobs[j].phase = "Failed" /\ jobs[j].pc = "gone"
        /\ ~settingsOpen
        /\ "jarvis-theme" \in DOMAIN localStorage /\ localStorage["jarvis-theme"] = "dark"


\* the requests waiting for a reply on socket s
PendingOn(s) ==
    { c \in 1 .. MaxChats :
        chats[c].sock = s /\ chats[c].listener /\ chats[c].timer /\ chats[c].outcome = "none" }

CouldNotStart == appPc = "notstarted" \/ procState = "spawnfail"

\* C39: when the backend could not be started, no connection attempt is made, no
\* reconnect is armed and the connection state is Disconnected.
C39_NoConnectUnlessStarted ==
    CouldNotStart => created = 0 /\ timers = 0 /\ ConnState = "Disconnected"

\* a connection attempt is made only once start() has returned true; after it
\* returned false no socket is ever made and no timer armed
C39_ConnectOnlyAfterStartReturnedTrue ==
    /\ [](appPc # "started" => created = 0 /\ timers = 0 /\ ConnState = "Disconnected")
    /\ [](appPc = "notstarted" => ~initTimer /\ ~pythonProcess)
    /\ [][appPc = "notstarted" => appPc' = "notstarted"]_vars

\* the spawn failed after spawn() returned, start() returned true all the same,
\* and a connection attempt to the backend that never ran has failed and armed
\* its reconnects
C39_ConnectAfterSpawnFailure ==
    /\ procState = "spawnfail" /\ appPc = "started"
    /\ created >= 1 /\ sockets[1].st = "CLOSED" /\ timers > 0

====
